---- MODULE Spec2Model ----
(***************************************************************************)
(* Model of the compendium builder (src/unnamed/part_000): the document    *)
(* indexer and the insertion applier of applyOperations, the block         *)
(* renderer formatMessageBlock, the split/join of the document text that   *)
(* main performs around every batch, and the version files main writes;    *)
(* and of the citation renderer of src/structure-compendium-topics.js:     *)
(* validateBatchCitations, applyWikipediaFootnotes and moveToSentenceEnd.  *)
(* Three smaller scripts have a specification each: processFile of        *)
(* src/split-discord-export.js (SplitSpec), run of                         *)
(* src/merge-structured-topics.js (MergeSpec) and main of the rating       *)
(* script in src/split-discord-export.js, lines 163-485 (RateSpec).        *)
(* The main loop of src/structure-compendium-topics.js with                 *)
(* parseCompendiumMessages and slugifyTopic is StructureSpec, and one call  *)
(* of generateTextWithRetry is RetrySpec.                                  *)
(*                                                                         *)
(* A JavaScript string is a sequence of one-character strings, so that     *)
(* startsWith, trim, split, join and the anchor regular expression are     *)
(* computed character by character, as the code computes them.             *)
(***************************************************************************)
EXTENDS Integers, Sequences, FiniteSets, TLC

(***************************************************************************)
(* Bounds of the model                                                     *)
(***************************************************************************)
\* batches (input files) applied one after another in a run
MaxBatches == 2
\* operations processed in one batch
MaxOps == 2
\* characters of an entry text
MaxTextLen == 3
\* citation requests of an entry
MaxRequests == 2

(***************************************************************************)
(* JavaScript values                                                       *)
(***************************************************************************)
\* the value undefined / null where a string is expected
Undef == << "<undefined>" >>

Whitespace == {" ", "\n", "\t"}

Digits == {"0", "1", "2", "3", "4", "5", "6", "7", "8", "9"}

\* String.prototype.startsWith
StartsWith(s, p) == Len(s) >= Len(p) /\ SubSeq(s, 1, Len(p)) = p

RECURSIVE TrimStart(_)
TrimStart(s) ==
  IF s # << >> /\ Head(s) \in Whitespace THEN TrimStart(Tail(s)) ELSE s

RECURSIVE TrimEnd(_)
TrimEnd(s) ==
  IF s # << >> /\ s[Len(s)] \in Whitespace
    THEN TrimEnd(SubSeq(s, 1, Len(s) - 1))
    ELSE s

\* String.prototype.trim
Trim(s) == TrimEnd(TrimStart(s))

\* String.prototype.slice(0, n)
SliceTo(s, n) == SubSeq(s, 1, IF Len(s) < n THEN Len(s) ELSE n)

\* index of the first occurrence of character c in s, 0 when there is none
RECURSIVE IndexOfFrom(_, _, _)
IndexOfFrom(s, c, i) ==
  IF i > Len(s) THEN 0
  ELSE IF s[i] = c THEN i
  ELSE IndexOfFrom(s, c, i + 1)

\* String.prototype.split(c): the pieces between the occurrences of c
RECURSIVE Split(_, _)
Split(s, c) ==
  LET k == IndexOfFrom(s, c, 1) IN
    IF k = 0 THEN << s >>
    ELSE << SubSeq(s, 1, k - 1) >> \o Split(SubSeq(s, k + 1, Len(s)), c)

\* only the first element returned
JoinFirstOnly(lines) ==
  IF lines = << >> \/ Head(lines) = Undef THEN << >> ELSE Head(lines)

\* Array.prototype.join('\n'): undefined and null elements render as ''
RECURSIVE Join(_)
Join(lines) ==
  IF lines = << >> THEN << >>
  ELSE LET h == IF Head(lines) = Undef THEN << >> ELSE Head(lines) IN
    IF Len(lines) = 1 THEN h
    ELSE h \o << "\n" >> \o Join(Tail(lines))

\* number of digits that end at position i of s, scanning backwards
RECURSIVE DigitRun(_, _)
DigitRun(s, i) ==
  IF i >= 1 /\ s[i] \in Digits THEN 1 + DigitRun(s, i - 1) ELSE 0

\* line.match(/\[(\d+)\]$/): the captured identifier, Undef when no match
AnchorMatch(line) ==
  LET n == Len(line)
      d == DigitRun(line, n - 1)
  IN IF n >= 3 /\ line[n] = "]" /\ d >= 1 /\ n - 1 - d >= 1
        /\ line[n - 1 - d] = "["
       THEN SubSeq(line, n - d, n - 1)
       ELSE Undef

(***************************************************************************)
(* Block source: the messages of the slim input files                      *)
(***************************************************************************)
HeaderPrefix == << "#", "#", " " >>

UnknownDate == << "U", "N", "K", "N", "O", "W", "N", "-", "D", "A", "T", "E" >>

ReplyQuotedOpen ==
  << ">", " ", "I", "n", " ", "r", "e", "p", "l", "y", " ", "t", "o", ":",
     " ", "\"" >>

ReplyLightOpen ==
  << ">", " ", "(", "R", "e", "p", "l", "y", " ", "t", "o", " ", "I", "D",
     ":", " " >>

\* length of the reply snippet, slice(0, 60)
SnippetLen == 60

\* a plain one-line message
Msg1 ==
  [id |-> << "1" >>, timestamp |-> << "7", "T", "0" >>, author |-> << "u" >>,
   content |-> << "a" >>, replyTo |-> Undef]

\* a reply to message 1, content with surrounding whitespace, no author
Msg2 ==
  [id |-> << "2" >>, timestamp |-> << "7", "T", "0" >>, author |-> Undef,
   content |-> << " ", "b", " " >>, replyTo |-> << "1" >>]

\* a three-line message: its first line ends with bracketed digits and its
\* second line is the text of a section header
Msg3 ==
  [id |-> << "3" >>, timestamp |-> Undef, author |-> Undef,
   content |-> << "c", "[", "1", "]", "\n", "#", "#", " ", "F", "\n", "d" >>,
   replyTo |-> Undef]

\* the messages arrays of the input files the run can be given
InputFiles == { << Msg1, Msg2, Msg3 >>, << Msg2 >> }

\* a JavaScript value used as a condition
Truthy(v) == v # Undef /\ v # << >>

MapSet(m, k, v) == [x \in DOMAIN m \cup {k} |-> IF x = k THEN v ELSE m[x]]

EmptyMap == [x \in {} |-> 0]

RECURSIVE buildMessageIndex(_)
buildMessageIndex(messages) ==
  IF messages = << >> THEN EmptyMap
  ELSE LET rest == buildMessageIndex(SubSeq(messages, 1, Len(messages) - 1))
           m == messages[Len(messages)]
       IN IF Truthy(m.id) THEN MapSet(rest, m.id, m) ELSE rest

\* a block that never quotes the message replied to
formatMessageBlockLight(msg, msgIndex) ==
  LET id == IF msg.id = Undef THEN << >> ELSE msg.id
      content == Trim(IF msg.content = Undef THEN << >> ELSE msg.content)
      block == << "[" >> \o UnknownDate \o << "]", " " >> \o content
                 \o << "[" >> \o id \o << "]" >>
  IN IF Truthy(msg.replyTo)
       THEN ReplyLightOpen \o msg.replyTo \o << ")", "\n" >> \o block
       ELSE block

formatMessageBlock(msg, msgIndex) ==
  LET id == IF msg.id = Undef THEN << >> ELSE msg.id
      ts == msg.timestamp
      dateStr == IF Truthy(ts) THEN Split(ts, "T")[1] ELSE UnknownDate
      author == IF Truthy(msg.author)
                  THEN << "[" >> \o msg.author \o << "]", " " >>
                  ELSE << >>
      content == Trim(IF msg.content = Undef THEN << >> ELSE msg.content)
      block == << "[" >> \o dateStr \o << "]", " " >> \o author \o content
                 \o << "[" >> \o id \o << "]" >>
  IN IF Truthy(msg.replyTo) /\ msg.replyTo \in DOMAIN msgIndex
       THEN LET replyMsg == msgIndex[msg.replyTo]
                snippet == Trim(SliceTo(IF replyMsg.content = Undef
                                          THEN << >>
                                          ELSE replyMsg.content, SnippetLen))
            IN ReplyQuotedOpen \o snippet \o << "\"", "\n" >> \o block
     ELSE IF Truthy(msg.replyTo)
       THEN ReplyLightOpen \o msg.replyTo \o << ")", "\n" >> \o block
     ELSE block

(***************************************************************************)
(* Document indexer: the first loop of applyOperations                     *)
(***************************************************************************)
\* newLines[j] of a 0-based JavaScript array
At(lines, j) == lines[j + 1]

IsHeader(line) == line # Undef /\ StartsWith(line, HeaderPrefix)

RECURSIVE IndexCategories(_, _)
IndexCategories(markdownLines, n) ==
  IF n = 0 THEN EmptyMap
  ELSE LET prev == IndexCategories(markdownLines, n - 1)
           line == At(markdownLines, n - 1)
       IN IF StartsWith(line, HeaderPrefix)
            THEN MapSet(prev, Trim(line), n - 1)
            ELSE prev

RECURSIVE IndexMessageIds(_, _)
IndexMessageIds(markdownLines, n) ==
  IF n = 0 THEN EmptyMap
  ELSE LET prev == IndexMessageIds(markdownLines, n - 1)
           line == At(markdownLines, n - 1)
           idMatch == AnchorMatch(line)
       IN IF idMatch # Undef THEN MapSet(prev, idMatch, n - 1) ELSE prev

(***************************************************************************)
(* Operation records                                                       *)
(***************************************************************************)
\* position: a string ("append", "prepend" or any other string, here
\* "other"), an object {afterId} or {beforeId}, or absent ("missing")
CatF == << "#", "#", " ", "F" >>

\* a header text with surrounding whitespace
CatG == << " ", "#", "#", " ", "G", " " >>

StringPosition(k) == [kind |-> k, ref |-> Undef]

ObjectPosition(k, r) == [kind |-> k, ref |-> r]

OpsOver(ids, categories, positions) ==
  { [messageId |-> m, category |-> c, position |-> p] :
      m \in ids, c \in categories, p \in positions }

\* the operation lists the curation step may return in one run: placement
\* in sections, anchor-relative placement, malformed records, and messages
\* whose content looks like document structure
PlacementOps ==
  OpsOver({ << "1" >>, << "2" >> }, {CatF, CatG},
          {StringPosition("append"), StringPosition("prepend")})
    \cup OpsOver({ << "9" >> }, {CatF, << "#", "#", " ", "K" >>},
                 {StringPosition("append")})

AnchorOps ==
  OpsOver({ << "1" >>, << "2" >> }, {CatF, CatG},
          { ObjectPosition(k, r) :
              k \in {"afterId", "beforeId"}, r \in { << "1" >>, << "2" >> } })

MalformedOps ==
  OpsOver({ << "1" >>, << "2" >> }, { << >>, << " " >>, Undef, CatG },
          {StringPosition("append"), StringPosition("missing"),
           StringPosition("other"), ObjectPosition("afterId", << "9" >>)})

StructuredContentOps ==
  OpsOver({ << "1" >>, << "3" >> }, {CatF, CatG},
          {StringPosition("append"), StringPosition("prepend")})

OperationPools == {"placement", "anchor", "malformed", "structured"}

OperationsOf(name) ==
  CASE name = "placement" -> PlacementOps
    [] name = "anchor" -> AnchorOps
    [] name = "malformed" -> MalformedOps
    [] name = "structured" -> StructuredContentOps

(***************************************************************************)
(* Insertion applier: the body of the loop over the operations             *)
(***************************************************************************)
\* the block written over the element at insertLine
SpliceOver(lines, insertLine, block) ==
  SubSeq(lines, 1, insertLine) \o << block >>
    \o SubSeq(lines, insertLine + 2, Len(lines))

\* Array.prototype.splice(insertLine, 0, block)
Splice(lines, insertLine, block) ==
  SubSeq(lines, 1, insertLine) \o << block >>
    \o SubSeq(lines, insertLine + 1, Len(lines))

\* the scan for the next header from line j on: its index, the length of the
\* array when there is none, -1 when the scan reads startsWith of undefined
RECURSIVE NextCat(_, _)
NextCat(lines, j) ==
  IF j >= Len(lines) THEN Len(lines)
  ELSE IF At(lines, j) = Undef THEN -1
  ELSE IF StartsWith(At(lines, j), HeaderPrefix) THEN j
  ELSE NextCat(lines, j + 1)

\* the section index left as it was
ShiftCategoriesNone(categoryIndex, insertLine) == categoryIndex

\* lines 373-375
ShiftCategories(categoryIndex, insertLine) ==
  [cat \in DOMAIN categoryIndex |->
     IF categoryIndex[cat] >= insertLine
       THEN categoryIndex[cat] + 1
       ELSE categoryIndex[cat]]

\* the anchor index left as it was
ShiftMessageIdsNone(messageIdToLine, insertLine, msgId) == messageIdToLine

\* lines 376-378
ShiftMessageIds(messageIdToLine, insertLine, msgId) ==
  [id \in DOMAIN messageIdToLine |->
     IF messageIdToLine[id] >= insertLine /\ id # msgId
       THEN messageIdToLine[id] + 1
       ELSE messageIdToLine[id]]

\* op.category?.trim()
OpCategory(op) == IF op.category = Undef THEN Undef ELSE Trim(op.category)

\* the header pushed without the blank line before it
ResolveCategoryNoBlank(st, category) ==
  IF category \in DOMAIN st.categoryIndex
    THEN [newLines |-> st.newLines,
          categoryIndex |-> st.categoryIndex,
          catLine |-> st.categoryIndex[category],
          created |-> FALSE]
    ELSE LET pushed == st.newLines \o << category, << >> >>
         IN [newLines |-> pushed,
             categoryIndex |-> MapSet(st.categoryIndex, category, Len(pushed) - 2),
             catLine |-> Len(pushed) - 2,
             created |-> TRUE]

\* lines 318-327: the working lines and catLine after section resolution
ResolveCategory(st, category) ==
  IF category \in DOMAIN st.categoryIndex
    THEN [newLines |-> st.newLines,
          categoryIndex |-> st.categoryIndex,
          catLine |-> st.categoryIndex[category],
          created |-> FALSE]
    ELSE LET pushed == st.newLines \o << << >>, category, << >> >>
         IN [newLines |-> pushed,
             categoryIndex |-> MapSet(st.categoryIndex, category, Len(pushed) - 2),
             catLine |-> Len(pushed) - 2,
             created |-> TRUE]

\* the scan started at the header line itself
CategoryEndFromHeader(lines, catLine) == NextCat(lines, catLine)

\* lines 335-342: the end of the section whose header is at catLine
CategoryEnd(lines, catLine) == NextCat(lines, catLine + 1)

\* the blank line after the header skipped
AfterHeaderSkipBlank(catLine) == catLine + 2

\* lines 329 and 333: the line after the header
AfterHeader(catLine) == catLine + 1

\* the block put on the referenced line itself
AfterAnchorSame(refLine) == refLine

\* line 347
AfterAnchor(refLine) == refLine + 1

\* lines 349-357
AfterIdFallback(lines, catLine) == NextCat(lines, catLine + 1)

\* lines 329-367: insertLine (-1 when the scan throws) and the warning given
ResolvePosition(lines, catLine, messageIdToLine, position) ==
  CASE position.kind = "prepend" ->
         [insertLine |-> AfterHeader(catLine), warned |-> << >>]
    [] position.kind = "append" ->
         [insertLine |-> CategoryEnd(lines, catLine), warned |-> << >>]
    [] position.kind = "afterId" ->
         IF position.ref \in DOMAIN messageIdToLine
           THEN [insertLine |-> AfterAnchor(messageIdToLine[position.ref]),
                 warned |-> << >>]
           ELSE [insertLine |-> AfterIdFallback(lines, catLine),
                 warned |-> << "warn: afterId not found, defaulting to append" >>]
    [] position.kind = "beforeId" ->
         IF position.ref \in DOMAIN messageIdToLine
           THEN [insertLine |-> messageIdToLine[position.ref],
                 warned |-> << >>]
           ELSE [insertLine |-> catLine + 1,
                 warned |-> << "warn: beforeId not found, defaulting to prepend" >>]
    [] OTHER ->
         [insertLine |-> catLine + 1, warned |-> << >>]

\* line 306: the block source has the identifier
InInput(msgIndex, msgId) == msgId \in DOMAIN msgIndex

\* the idempotency check left out
AlreadyInsertedNever(messageIdToLine, msgId) == FALSE

\* line 311: the identifier has an anchor in the document
AlreadyInserted(messageIdToLine, msgId) == msgId \in DOMAIN messageIdToLine

\* one iteration of the loop of lines 304-379 on the working state st
ApplyOperation(st, op, msgIndex) ==
  LET msgId == op.messageId
      skipped(outcome, report) ==
        [newLines |-> st.newLines, categoryIndex |-> st.categoryIndex,
         messageIdToLine |-> st.messageIdToLine,
         insertedCount |-> st.insertedCount,
         outcome |-> outcome, reports |-> << report >>,
         catLine |-> -1, insertLine |-> -1, created |-> FALSE,
         block |-> << >>]
  IN IF ~ InInput(msgIndex, msgId)
       THEN skipped("unknown", "warn: not found in input data, skipping")
     ELSE IF AlreadyInserted(st.messageIdToLine, msgId)
       THEN skipped("duplicate", "log: already exists in compendium, skipping")
     ELSE
       LET block == formatMessageBlock(msgIndex[msgId], msgIndex)
           category == OpCategory(op)
           sec == ResolveCategory(st, category)
           pos == ResolvePosition(sec.newLines, sec.catLine,
                                  st.messageIdToLine, op.position)
           insertLine == pos.insertLine
           reports == (IF sec.created THEN << "log: Created category" >>
                                      ELSE << >>) \o pos.warned
       IN IF insertLine = -1
            THEN [newLines |-> sec.newLines,
                  categoryIndex |-> sec.categoryIndex,
                  messageIdToLine |-> st.messageIdToLine,
                  insertedCount |-> st.insertedCount,
                  outcome |-> "threw", reports |-> reports,
                  catLine |-> sec.catLine, insertLine |-> -1,
                  created |-> sec.created, block |-> block]
            ELSE [newLines |-> Splice(sec.newLines, insertLine, block),
                  categoryIndex |->
                    ShiftCategories(sec.categoryIndex, insertLine),
                  messageIdToLine |->
                    ShiftMessageIds(
                      MapSet(st.messageIdToLine, msgId, insertLine),
                      insertLine, msgId),
                  insertedCount |-> st.insertedCount + 1,
                  outcome |-> "inserted", reports |-> reports,
                  catLine |-> sec.catLine, insertLine |-> insertLine,
                  created |-> sec.created, block |-> block]

\* lines 287-302: the working state applyOperations starts from
IndexDocument(markdownLines) ==
  [newLines |-> markdownLines,
   categoryIndex |-> IndexCategories(markdownLines, Len(markdownLines)),
   messageIdToLine |-> IndexMessageIds(markdownLines, Len(markdownLines)),
   insertedCount |-> 0]

\* the result of a call that threw
Threw == << "<threw>" >>

\* the loop over the operations, from the working state st
RECURSIVE ApplyAll(_, _, _)
ApplyAll(st, ops, msgIndex) ==
  IF ops = << >> THEN Join(st.newLines)
  ELSE LET r == ApplyOperation(st, Head(ops), msgIndex) IN
         IF r.outcome = "threw" THEN Threw
         ELSE ApplyAll([newLines |-> r.newLines,
                        categoryIndex |-> r.categoryIndex,
                        messageIdToLine |-> r.messageIdToLine,
                        insertedCount |-> r.insertedCount],
                       Tail(ops), msgIndex)

\* applyOperations as a function of its arguments: the joined text
applyOperations(markdownLines, ops, msgIndex) ==
  ApplyAll(IndexDocument(markdownLines), ops, msgIndex)

(***************************************************************************)
(* Version files of the compendium directory                               *)
(***************************************************************************)
\* String(d) of a digit d
DigitOf(d) == << "0", "1", "2", "3", "4", "5", "6", "7", "8", "9" >>[d + 1]

\* String(n) of a natural number
RECURSIVE NumberToString(_)
NumberToString(n) ==
  IF n < 10 THEN << DigitOf(n) >>
  ELSE NumberToString(n \div 10) \o << DigitOf(n % 10) >>

\* String.prototype.padStart(width, '0')
RECURSIVE PadStart(_, _)
PadStart(s, width) ==
  IF Len(s) >= width THEN s ELSE PadStart(<< "0" >> \o s, width)

\* parseInt(digits, 10) of the digits the file-name expression captured
RECURSIVE ParseInt(_)
ParseInt(digits) ==
  IF digits = << >> THEN 0
  ELSE ParseInt(SubSeq(digits, 1, Len(digits) - 1)) * 10
         + (CHOOSE d \in 0..9 : DigitOf(d) = digits[Len(digits)])

\* width of the version number in a file name
VersionWidth == 3

\* null where a version record is expected
NoVersion == [name |-> Undef, version |-> 0]

\* the version file with the highest number, NoVersion when there is none
getLatestVersion(directory) ==
  IF DOMAIN directory = {} THEN NoVersion
  ELSE LET name == CHOOSE f \in DOMAIN directory :
                     \A g \in DOMAIN directory : ParseInt(g) <= ParseInt(f)
       IN [name |-> name, version |-> ParseInt(name)]

\* the name of the current version written again
getNextVersionFilenameSame(currentVersion) ==
  PadStart(NumberToString(currentVersion.version), VersionWidth)

\* the digits of the file name of the version after currentVersion
getNextVersionFilename(currentVersion) ==
  PadStart(NumberToString(currentVersion.version + 1), VersionWidth)

\* fs.outputFile(path, content): the file is created or overwritten
OutputFile(directory, name, content) ==
  [f \in DOMAIN directory \cup {name} |->
     IF f = name THEN content ELSE directory[f]]

(***************************************************************************)
(* Citations (src/structure-compendium-topics.js): validateBatchCitations  *)
(* and applyWikipediaFootnotes with its moveToSentenceEnd                  *)
(***************************************************************************)
\* /[.!?]/
Terminators == {".", "!", "?"}

\* /["')\]]/
ClosingChars == {"\"", "'", ")", "]"}

Min(a, b) == IF a < b THEN a ELSE b

Max(a, b) == IF a > b THEN a ELSE b

\* 1-based index of the first character of text at or after index i that is
\* in chars, 0 when there is none
RECURSIVE FirstOf(_, _, _)
FirstOf(text, chars, i) ==
  IF i > Len(text) THEN 0
  ELSE IF text[i] \in chars THEN i
  ELSE FirstOf(text, chars, i + 1)

\* the closing characters after the terminator left where they are
SkipClosingNone(text, idx) == idx

\* line 514: the offset idx moved past the closing characters at it
RECURSIVE SkipClosing(_, _)
SkipClosing(text, idx) ==
  IF idx < Len(text) /\ text[idx + 1] \in ClosingChars
    THEN SkipClosing(text, idx + 1)
    ELSE idx

\* the requested offset kept, clamped into the text
moveToSentenceEndKeep(text, atChar) == Max(0, Min(Len(text), atChar))

\* lines 494-516: the offset a marker requested at atChar is put at
moveToSentenceEnd(text, atChar) ==
  LET n == Len(text)
      start == Max(0, Min(n, atChar))
      m == FirstOf(text, Terminators, start + 1)
      nl == FirstOf(text, {"\n"}, start + 1)
  IN IF start >= n THEN n
     ELSE IF m = 0 THEN (IF nl = 0 THEN n ELSE nl - 1)
     ELSE SkipClosing(text, m)

\* lines 491-492: the offset is an integer within the text
ValidOffset(atChar, text) == atChar >= 0 /\ atChar <= Len(text)

\* Number.isInteger(ins.atChar). The atChar of a request is a JSON number:
\* the field atChar holds its integer part and the field isInteger tells
\* that it has no fractional part.
NumberIsInteger(ins) == ins.isInteger

\* an offset counted as valid although it is no integer
ValidInsertAnyNumber(ins, text) == ValidOffset(ins.atChar, text)

\* the filter of line 492 and the test of line 467
ValidInsert(ins, text) ==
  NumberIsInteger(ins) /\ ValidOffset(ins.atChar, text)

\* the elements of seq that are not the empty string
RECURSIVE NonEmpty(_)
NonEmpty(seq) ==
  IF seq = << >> THEN << >>
  ELSE (IF Head(seq) = << >> THEN << >> ELSE << Head(seq) >>)
         \o NonEmpty(Tail(seq))

\* lines 488-490: the trimmed, non-empty identifiers of the sources
MessageIdsOf(sources) ==
  NonEmpty([i \in 1..Len(sources) |->
              IF sources[i] = Undef THEN << >> ELSE Trim(sources[i])])

\* lines 485-492: the requests with a valid offset, in the order supplied;
\* req is the place of the request object in entry.citationInserts
RECURSIVE InsertsFrom(_, _)
InsertsFrom(entry, i) ==
  IF i > Len(entry.citationInserts) THEN << >>
  ELSE LET ins == entry.citationInserts[i] IN
    (IF ValidInsert(ins, entry.text)
       THEN << [atChar |-> ins.atChar,
                messageIds |-> MessageIdsOf(ins.sources), req |-> i] >>
       ELSE << >>) \o InsertsFrom(entry, i + 1)

Inserts(entry) == InsertsFrom(entry, 1)

\* the keys sorted in descending order
RECURSIVE SortDescending(_)
SortDescending(keys) ==
  IF keys = {} THEN << >>
  ELSE LET m == CHOOSE x \in keys : \A y \in keys : y <= x
       IN << m >> \o SortDescending(keys \ {m})

\* line 525: Array.from(groups.keys()).sort((a, b) => a - b)
RECURSIVE SortAscending(_)
SortAscending(keys) ==
  IF keys = {} THEN << >>
  ELSE LET m == CHOOSE x \in keys : \A y \in keys : x <= y
       IN << m >> \o SortAscending(keys \ {m})

\* lines 519-524: the requests grouped under the snapped offset at
GroupAt(text, inserts, at) ==
  SelectSeq(inserts, LAMBDA ins : moveToSentenceEnd(text, ins.atChar) = at)

\* lines 519-525
GroupKeys(text, inserts) ==
  SortAscending({ moveToSentenceEnd(text, inserts[i].atChar) :
                    i \in 1..Len(inserts) })

\* the identifiers as they were given, repeats kept
UniqueKeepAll(ids) == ids

\* Array.from(new Set(ids)): first occurrences, in order
RECURSIVE Unique(_)
Unique(ids) ==
  IF ids = << >> THEN << >>
  ELSE LET front == Unique(SubSeq(ids, 1, Len(ids) - 1))
           x == ids[Len(ids)]
       IN IF \E i \in 1..Len(front) : front[i] = x
            THEN front ELSE Append(front, x)

\* `[${n}]`
Marker(n) == << "[" >> \o NumberToString(n) \o << "]" >>

\* nums.map(n => `[${n}]`).join('')
RECURSIVE Markers(_)
Markers(nums) ==
  IF nums = << >> THEN << >> ELSE Marker(Head(nums)) \o Markers(Tail(nums))

\* lines 531-543: the groups in the order of atChars, each with the
\* reference numbers its requests take from refNumber on
RECURSIVE NumberGroups(_, _, _, _)
NumberGroups(text, inserts, atChars, refNumber) ==
  IF atChars = << >> THEN << >>
  ELSE LET at == Head(atChars)
           insList == GroupAt(text, inserts, at)
           nums == [j \in 1..Len(insList) |-> refNumber + j - 1]
       IN << [atChar |-> at, insList |-> insList, nums |-> nums,
              marker |-> Markers(nums)] >>
            \o NumberGroups(text, inserts, Tail(atChars),
                            refNumber + Len(insList))

\* the numbered groups of an entry
Numbered(entry) ==
  LET inserts == Inserts(entry) IN
    NumberGroups(entry.text, inserts, GroupKeys(entry.text, inserts), 1)

\* line 540: footnotes[String(n)] for every request of every group
Footnotes(groups) ==
  LET numbers == UNION { { NumberToString(groups[g].nums[j]) :
                             j \in 1..Len(groups[g].nums) } :
                         g \in 1..Len(groups) }
  IN [key \in numbers |->
        LET g == CHOOSE g \in 1..Len(groups) :
                   \E j \in 1..Len(groups[g].nums) :
                     NumberToString(groups[g].nums[j]) = key
            j == CHOOSE j \in 1..Len(groups[g].nums) :
                   NumberToString(groups[g].nums[j]) = key
        IN Unique(groups[g].insList[j].messageIds)]

\* the markers inserted from the first group to the last
RECURSIVE InsertMarkersAscending(_, _, _)
InsertMarkersAscending(textWith, insertMarkers, i) ==
  IF i = 0 THEN textWith
  ELSE LET k == Len(insertMarkers) - i + 1
           atChar == insertMarkers[k].atChar
           marker == insertMarkers[k].marker
       IN InsertMarkersAscending(SubSeq(textWith, 1, atChar) \o marker
                                   \o SubSeq(textWith, atChar + 1, Len(textWith)),
                                 insertMarkers, i - 1)

\* lines 545-550: the markers inserted from the last group to the first
RECURSIVE InsertMarkers(_, _, _)
InsertMarkers(textWith, insertMarkers, i) ==
  IF i = 0 THEN textWith
  ELSE LET atChar == insertMarkers[i].atChar
           marker == insertMarkers[i].marker
       IN InsertMarkers(SubSeq(textWith, 1, atChar) \o marker
                          \o SubSeq(textWith, atChar + 1, Len(textWith)),
                        insertMarkers, i - 1)

OtherType == << "o", "t", "h", "e", "r" >>

\* lines 483-558
applyWikipediaFootnotes(entry) ==
  LET groups == Numbered(entry) IN
    [entryId |-> IF entry.entryId = Undef THEN << >> ELSE entry.entryId,
     type |-> IF entry.type = Undef THEN OtherType ELSE entry.type,
     text |-> InsertMarkers(entry.text, groups, Len(groups)),
     footnotes |-> Footnotes(groups)]

\* the identifiers of the messages given to the model for the batch
ProvidedIds == { << "4", "2" >> }

\* lines 464-477: the defects of the requests of an entry from place i on
RECURSIVE BadFrom(_, _, _)
BadFrom(entry, messageById, i) ==
  IF i > Len(entry.citationInserts) THEN 0
  ELSE LET ins == entry.citationInserts[i]
           unknown == SelectSeq(ins.sources,
                                LAMBDA src : (IF src = Undef THEN << >> ELSE src)
                                               \notin messageById)
       IN (IF ValidInsert(ins, entry.text) THEN 0 ELSE 1)
            + Len(unknown) + BadFrom(entry, messageById, i + 1)

BadOfEntry(entry, messageById) == BadFrom(entry, messageById, 1)

\* lines 460-481
RECURSIVE validateBatchCitations(_, _)
validateBatchCitations(entries, messageById) ==
  IF entries = << >> THEN 0
  ELSE BadOfEntry(Head(entries), messageById)
         + validateBatchCitations(Tail(entries), messageById)

\* lines 690-693: entry i of batch 0 without an entryId of its own
EntryIdOf(i) == << "0", ":", "e" >> \o NumberToString(i)

normalizedEntries(entries) ==
  [i \in 1..Len(entries) |-> [entries[i] EXCEPT !.entryId = EntryIdOf(i)]]

\* the sources of the request at place i of an entry
SourcesOf(i) ==
  IF i % 2 = 1 THEN << << "4", "2" >> >>
  ELSE << << "7" >>, << " ", "4", "2" >>, << "7" >> >>

\* the characters of the bounded entry texts
TextChars == {"a", ".", ")", "\n"}

\* all sequences over S of length at most n
RECURSIVE SeqsUpTo(_, _)
SeqsUpTo(S, n) ==
  IF n = 0 THEN { << >> }
  ELSE LET shorter == SeqsUpTo(S, n - 1) IN
         shorter \cup { Append(q, x) : q \in shorter, x \in S }

\* the text of the example scenarios
ExampleText ==
  << "R", "a", "m", "e", "n", " ", "i", "s", " ", "c", "h", "e", "a", "p",
     " ", "h", "e", "r", "e", "." >>

\* the integers of S as offsets of a model response
WholeOffsets(S) == { [atChar |-> n, isInteger |-> TRUE] : n \in S }

\* the offset 1.5
HalfOffset == [atChar |-> 1, isInteger |-> FALSE]

\* the entries of a model response over the given texts and offsets
EntriesOver(texts, offsets) ==
  { [entryId |-> Undef, type |-> Undef, text |-> t,
     citationInserts |->
       [i \in 1..Len(ats) |->
          [atChar |-> ats[i].atChar, isInteger |-> ats[i].isInteger,
           sources |-> SourcesOf(i)]]] :
      t \in texts, ats \in SeqsUpTo(offsets, MaxRequests) }

BoundedEntries ==
  EntriesOver(SeqsUpTo(TextChars, MaxTextLen), WholeOffsets(-1..MaxTextLen))

\* the example text is 20 characters long
ExampleEntries ==
  EntriesOver({ExampleText}, WholeOffsets({4, 5, 6, 21}) \cup {HalfOffset})

\* the example entries with one request at most
ShortEntries == { e \in ExampleEntries : Len(e.citationInserts) <= 1 }

\* the entries arrays the model can return for a batch
ModelResponses ==
  { << e >> : e \in BoundedEntries }
    \cup { << e1, e2 >> : e1 \in ExampleEntries, e2 \in ShortEntries }

\* the structuring script before a batch's response: nothing rendered
NoCite == [phase |-> "none", entries |-> << >>, badCitations |-> 0,
           wikipediaEntries |-> << >>]

(***************************************************************************)
(* split-discord-export.js: an export streamed into part files             *)
(***************************************************************************)
\* the values the stream of one export delivers at most
MaxMessages == 250

\* the values of the messages array that are no objects, at most
MaxSkipped == 1

MESSAGES_PER_FILE == 100

\* writePart: the part file of the given index holds the given messages
writePart(parts, messages, partIndex) == MapSet(parts, partIndex, messages)

\* processFile before the stream delivers: lines 91-93
StreamStart ==
  [phase |-> "streaming", messageBuffer |-> << >>, partIndex |-> 1,
   totalMessages |-> 0, values |-> 0, parts |-> EmptyMap]

\* no export is being split
NoSplit == [StreamStart EXCEPT !.phase = "none"]

(***************************************************************************)
(* merge-structured-topics.js: topic files merged in groups                *)
(***************************************************************************)
\* the entries a topic file holds at most before the merge
MaxFileEntries == 2

\* lines 14-28: the groups A and B; the groups C and D have two files and
\* the second as output, as group A has
GROUPS ==
  << [name |-> "A",
      files |-> << "accommodation-noclegi.json", "accommodation.json" >>,
      output |-> "accommodation.json"],
     [name |-> "B",
      files |-> << "general-protips-travel-hacks-life-hacks.json",
                   "general-protips-travel-hacks.json",
                   "general-protips.json" >>,
      output |-> "general-protips.json"] >>

FileNames ==
  UNION { { GROUPS[g].files[k] : k \in 1..Len(GROUPS[g].files) } :
          g \in 1..Len(GROUPS) }

\* a file that does not exist, and a file that is no JSON
MissingFile == [kind |-> "missing", entries |-> << >>]

MalformedFile == [kind |-> "malformed", entries |-> << >>]

\* a file holding { entries: [...] }
JsonFile(entries) == [kind |-> "json", entries |-> entries]

\* the first n entries of the topic file of the given name, numbered from
\* 0:e1 within the file as the structuring script numbers them
EntriesOfFile(name, n) ==
  [j \in 1..n |-> [entryId |-> EntryIdOf(j), text |-> << name, j >>]]

\* the directories the merge can be run on
TopicDirectories ==
  [FileNames ->
     {MissingFile, MalformedFile}
       \cup { [kind |-> "json", count |-> n] : n \in 0..MaxFileEntries }]

DirectoryFiles(d) ==
  [name \in FileNames |->
     IF d[name].kind = "json"
       THEN JsonFile(EntriesOfFile(name, d[name].count))
       ELSE d[name]]

\* lines 41-45 and the catch of lines 55-57: the entries a file adds to
\* allEntries; a file that cannot be read or parsed adds none
loadJson(file) == IF file.kind = "json" THEN file.entries ELSE << >>

\* lines 49-58: the entries of the files from place k on, in listed order
RECURSIVE allEntriesFrom(_, _, _)
allEntriesFrom(group, files, k) ==
  IF k > Len(group.files) THEN << >>
  ELSE loadJson(files[group.files[k]]) \o allEntriesFrom(group, files, k + 1)

\* the entries with the identifiers they came with
RenumberKeep(allEntries) == allEntries

\* lines 61-64: entryId is "0:e" and the 1-based place
Renumber(allEntries) ==
  [i \in 1..Len(allEntries) |->
     [allEntries[i] EXCEPT
        !.entryId = << "0", ":", "e" >> \o NumberToString(i)]]

\* lines 47-67
mergeGroup(group, files) == Renumber(allEntriesFrom(group, files, 1))

\* lines 80-85: the files of the group other than the output are unlinked
\* in listed order; unlinkSync throws at a file that does not exist
RECURSIVE Unlinks(_, _, _)
Unlinks(group, files, k) ==
  IF k > Len(group.files) THEN [files |-> files, threw |-> FALSE]
  ELSE LET file == group.files[k] IN
    IF file = group.output THEN Unlinks(group, files, k + 1)
    ELSE IF files[file].kind = "missing" THEN [files |-> files, threw |-> TRUE]
    ELSE Unlinks(group, [files EXCEPT ![file] = MissingFile], k + 1)

\* lines 72-85: one iteration of run
RunGroup(group, files) ==
  Unlinks(group,
          [files EXCEPT ![group.output] = JsonFile(mergeGroup(group, files))],
          1)

\* the merging script is not running
NoMerge == [phase |-> "none", files |-> << >>, next |-> 1]

(***************************************************************************)
(* rate-entries.js: the entries of the topic files rated in batches        *)
(***************************************************************************)
\* the entries of all topic files together
MaxEntries == 3

\* args.batchSize
BatchSize == 2

\* the runs of the script
MaxRuns == 2

\* the items of a model response at most
MaxItems == 2

\* line 352: the id of the entry at the given place of allEntries
IdOfEntry(k) == NumberToString(k)

AllIds == { IdOfEntry(k) : k \in 0..(MaxEntries - 1) }

\* Numbers are held in tenths: 4995 is 499.5. A rating that is no finite
\* number (a missing rating, a text) is NotFinite.
NotFinite == [finite |-> FALSE, tenths |-> 0]

Tenths(t) == [finite |-> TRUE, tenths |-> t]

\* Number(item?.rating) of the items the model returns
RawRatings == { NotFinite, Tenths(-3), Tenths(4995), Tenths(12004) }

\* the items the array the model returns can hold; "9" is the id of no
\* entry
RatingItems ==
  { [id |-> id, rating |-> raw] :
      id \in AllIds \cup { << "9" >> }, raw \in RawRatings }

\* Math.round of a number held in tenths
MathRound(t) == ((t + 5) \div 10) * 10

\* the clamped number as it is, fraction kept
ClampOnly(t) == Max(0, Min(10000, t))

\* line 439: Math.round(Math.max(0, Math.min(1000, raw)))
RatingOf(t) == MathRound(Max(0, Min(10000, t)))

\* line 383: the ids of the batch that starts at batchStart
BatchIds(batchStart) ==
  { IdOfEntry(k) :
      k \in batchStart..(Min(batchStart + BatchSize, MaxEntries) - 1) }

\* a batch counted as done as soon as one of its entries has a rating
alreadyDoneSome(batchStart, savedRatings) ==
  \E id \in BatchIds(batchStart) : id \in DOMAIN savedRatings

\* line 387: batch.every(e => savedRatings.has(e.id))
alreadyDone(batchStart, savedRatings) ==
  \A id \in BatchIds(batchStart) : id \in DOMAIN savedRatings

\* lines 434-438: the item has a finite rating and the id of an entry of
\* the batch
Taken(item, batch) == item.rating.finite /\ item.id \in batch

\* lines 434-440: the ratings after the item
TakeItem(ratings, item, batch) ==
  IF Taken(item, batch)
    THEN MapSet(ratings, item.id, RatingOf(item.rating.tenths))
    ELSE ratings

NoStateFile == [exists |-> FALSE, ratings |-> EmptyMap]

NoStep == [kind |-> "none", sent |-> FALSE, returned |-> {}]

\* the rating script is not running
NoRate ==
  [phase |-> "none", args |-> [resume |-> FALSE, dryRun |-> FALSE],
   stateFile |-> NoStateFile, entryRating |-> EmptyMap,
   savedRatings |-> EmptyMap, batchStart |-> 0, runs |-> 0, items |-> 0,
   step |-> NoStep]

(***************************************************************************)
(* generateTextWithRetry and isRetryableError (src/unnamed/part_000, and    *)
(* the same functions in src/structure-compendium-topics.js)                *)
(***************************************************************************)
\* the largest number RETRY_MAX_ATTEMPTS is set to
MaxEnvAttempts == 2

\* the default of maxAttempts
DefaultMaxAttempts == 30

\* process.env.RETRY_MAX_ATTEMPTS: not set, or the digits of a number
RetryEnvs == {Undef} \cup { NumberToString(n) : n \in 0..MaxEnvAttempts }

\* line 217: Number.parseInt(env ?? '', 10) || 30; NaN and 0 give the default
maxAttemptsOf(env) ==
  IF env = Undef \/ ParseInt(env) = 0 THEN DefaultMaxAttempts ELSE ParseInt(env)

\* err?.status ?? err?.cause?.status: a number, or a value that is none
NoStatus == [isNumber |-> FALSE, value |-> 0]

Status(n) == [isNumber |-> TRUE, value |-> n]

\* the list of line 148
RetryableCodes ==
  { "ECONNRESET", "ECONNREFUSED", "EAI_AGAIN", "ENOTFOUND", "ETIMEDOUT",
    "UND_ERR_CONNECT_TIMEOUT", "UND_ERR_HEADERS_TIMEOUT",
    "UND_ERR_BODY_TIMEOUT", "UND_ERR_SOCKET" }

\* the messages that /fetch failed/i or /socket hang up/i matches
TransportMessages == { "TypeError: Fetch Failed", "socket hang up" }

\* the errors generateContent throws: status, message, and the code
\* getErrorCode finds ("" when it finds no string)
ModelErrors ==
  [status : {NoStatus, Status(400), Status(429), Status(503), Status(600)},
   message : TransportMessages \cup {"", "Bad Request"},
   code : {"", "ECONNRESET", "EPIPE"}]

\* lines 134-160
isRetryableError(err) ==
  \/ /\ err.status.isNumber
     /\ \/ err.status.value \in {408, 429, 503}
        \/ err.status.value >= 500 /\ err.status.value <= 599
  \/ err.message \in TransportMessages
  \/ err.code # "" /\ err.code \in RetryableCodes

\* no error was thrown
NoError == [status |-> NoStatus, message |-> "", code |-> ""]

\* the call generateTextWithRetry(model, promptParts) at its first attempt
FirstAttempt(env) ==
  [phase |-> "calling", maxAttempts |-> maxAttemptsOf(env), attempt |-> 1,
   calls |-> 0, logged |-> 0, error |-> NoError]

\* no call is under way
NoRetry == [FirstAttempt(Undef) EXCEPT !.phase = "none"]

\* lines 216-254: one invocation, from the log of the attempt to the return,
\* the throw or the recursive call; threw says whether generateContent
\* threw, and error is what it threw
generateTextWithRetry(r, threw, error) ==
  LET sent == [r EXCEPT !.calls = @ + 1, !.logged = r.attempt] IN
    IF ~threw THEN [sent EXCEPT !.phase = "returned"]
    ELSE IF r.attempt > r.maxAttempts
      THEN [sent EXCEPT !.phase = "threw", !.error = error]
    ELSE IF isRetryableError(error)
      THEN [sent EXCEPT !.attempt = @ + 1, !.error = error]
    ELSE [sent EXCEPT !.phase = "threw", !.error = error]

(***************************************************************************)
(* structure-compendium-topics.js: the compendium read back, the topics    *)
(* and their slugs                                                         *)
(***************************************************************************)
\* the messages of the compendium the structuring script reads, at most
MaxCompendiumMessages == 3

\* /\[(\d{10,})\]\s*$/: the least number of digits of a message identifier
MinIdDigits == 10

\* a message identifier of ten digits, as the exports have them
LongId(d) == << "1", "0", "0", "0", "0", "0", "0", "0", "0", DigitOf(d) >>

\* the messages the compendium builder is given
LongMessages ==
  [d \in 1..MaxCompendiumMessages |->
     [id |-> LongId(d), timestamp |-> << "7", "T", "0" >>, author |-> << "u" >>,
      content |-> << "a" >>, replyTo |-> Undef]]

\* the section names of the operations that built the compendium; the
\* first two differ in case only
TopicCategories ==
  { << "#", "#", " ", "F" >>, << "#", "#", " ", "f" >>, << "#", "#", " ", "G" >> }

\* the operation lists that append the first n messages, one per operation
RECURSIVE AppendOpsFor(_)
AppendOpsFor(n) ==
  IF n = 0 THEN { << >> }
  ELSE { Append(ops, [messageId |-> LongId(n), category |-> c,
                      position |-> StringPosition("append")]) :
           ops \in AppendOpsFor(n - 1), c \in TopicCategories }

\* the compendium texts: what applyOperations makes of an empty document
CompendiumDocs ==
  { applyOperations(Split(<< >>, "\n"), ops, buildMessageIndex(LongMessages)) :
      ops \in UNION { AppendOpsFor(n) : n \in 0..MaxCompendiumMessages } }

\* line.match(idAtLineEnd): the captured identifier, Undef when no match
IdAtLineEnd(line) ==
  LET t == TrimEnd(line)
      n == Len(t)
      d == DigitRun(t, n - 1)
  IN IF n >= 3 /\ t[n] = "]" /\ d >= MinIdDigits /\ n - 1 - d >= 1
        /\ t[n - 1 - d] = "["
       THEN SubSeq(t, n - d, n - 1)
       ELSE Undef

\* line.replace(idAtLineEnd, '') of a line that matches
WithoutId(line) ==
  LET t == TrimEnd(line) IN SubSeq(t, 1, Len(t) - DigitRun(t, Len(t) - 1) - 2)

Uncategorized ==
  HeaderPrefix \o << "U", "n", "c", "a", "t", "e", "g", "o", "r", "i", "z",
                     "e", "d" >>

\* the locals of parseCompendiumMessages before its loop (lines 231-235)
ParseStart ==
  [currentSection |-> Undef, buf |-> << >>, bufSection |-> Undef,
   messages |-> << >>]

\* lines 240-272 and 274-286: the loop over the lines from place k on
RECURSIVE ParseLines(_, _, _)
ParseLines(lines, k, st) ==
  IF k > Len(lines) THEN st.messages
  ELSE LET rawLine == lines[k]
           trimmedEnd == TrimEnd(rawLine)
       IN IF StartsWith(trimmedEnd, HeaderPrefix)
            THEN ParseLines(lines, k + 1,
                   [st EXCEPT !.currentSection =
                      Trim(SubSeq(trimmedEnd, 4, Len(trimmedEnd)))])
            ELSE LET bufSection == IF st.buf = << >> THEN st.currentSection
                                   ELSE st.bufSection
                     buf == Append(st.buf, rawLine)
                     messageId == IdAtLineEnd(rawLine)
                     section == IF bufSection # Undef THEN bufSection
                                ELSE st.currentSection
                 IN IF messageId = Undef
                      THEN ParseLines(lines, k + 1,
                             [st EXCEPT !.buf = buf, !.bufSection = bufSection])
                      ELSE ParseLines(lines, k + 1,
                             [st EXCEPT
                                !.buf = << >>,
                                !.bufSection = Undef,
                                !.messages = Append(@,
                                  [index |-> Len(st.messages),
                                   messageId |-> messageId,
                                   section |-> section,
                                   sectionHeader |->
                                     IF Truthy(section)
                                       THEN HeaderPrefix \o section
                                       ELSE Uncategorized,
                                   raw |-> Join(SubSeq(buf, 1, Len(buf) - 1)
                                                  \o << WithoutId(rawLine) >>)])])

\* lines 229-289
parseCompendiumMessages(markdown) ==
  ParseLines(Split(markdown, "\n"), 1, ParseStart)

UpperCase ==
  << "A", "B", "C", "D", "E", "F", "G", "H", "I", "J", "K", "L", "M", "N",
     "O", "P", "Q", "R", "S", "T", "U", "V", "W", "X", "Y", "Z" >>

LowerCase ==
  << "a", "b", "c", "d", "e", "f", "g", "h", "i", "j", "k", "l", "m", "n",
     "o", "p", "q", "r", "s", "t", "u", "v", "w", "x", "y", "z" >>

\* String.prototype.toLowerCase
ToLowerCase(s) ==
  [i \in 1..Len(s) |->
     IF \E k \in 1..Len(UpperCase) : UpperCase[k] = s[i]
       THEN LowerCase[CHOOSE k \in 1..Len(UpperCase) : UpperCase[k] = s[i]]
       ELSE s[i]]

\* /[a-z0-9]/
SlugChars == { LowerCase[k] : k \in 1..Len(LowerCase) } \cup Digits

\* replace(/&/g, ' and ')
RECURSIVE ReplaceAmpersands(_)
ReplaceAmpersands(s) ==
  IF s = << >> THEN << >>
  ELSE (IF Head(s) = "&" THEN << " ", "a", "n", "d", " " >> ELSE << Head(s) >>)
         \o ReplaceAmpersands(Tail(s))

\* s without the characters at its start that are no slug characters
RECURSIVE SkipOthers(_)
SkipOthers(s) ==
  IF s # << >> /\ Head(s) \notin SlugChars THEN SkipOthers(Tail(s)) ELSE s

\* replace(/[^a-z0-9]+/g, '-'); a run of '-' is such a run, so that
\* replace(/-+/g, '-') leaves the result as it is
RECURSIVE DashRuns(_)
DashRuns(s) ==
  IF s = << >> THEN << >>
  ELSE IF Head(s) \in SlugChars THEN << Head(s) >> \o DashRuns(Tail(s))
  ELSE << "-" >> \o DashRuns(SkipOthers(s))

\* replace(/^-|-$/g, '')
StripDashes(s) ==
  LET a == IF s # << >> /\ Head(s) = "-" THEN Tail(s) ELSE s
  IN IF a # << >> /\ a[Len(a)] = "-" THEN SubSeq(a, 1, Len(a) - 1) ELSE a

\* lines 291-300
slugifyTopic(topicHeader) ==
  LET t == Trim(topicHeader)
      norm == ToLowerCase(Trim(
                IF StartsWith(t, << "#", "#" >>) /\ Len(t) >= 3
                     /\ t[3] \in Whitespace
                  THEN TrimStart(SubSeq(t, 3, Len(t)))
                  ELSE t))
      slug == StripDashes(DashRuns(ReplaceAmpersands(norm)))
  IN IF slug = << >> THEN << "u", "n", "k", "n", "o", "w", "n" >> ELSE slug

\* lines 302-314: the headers in the order of their first message
RECURSIVE TopicHeaders(_)
TopicHeaders(messages) ==
  IF messages = << >> THEN << >>
  ELSE LET before == TopicHeaders(SubSeq(messages, 1, Len(messages) - 1))
           h == messages[Len(messages)].sectionHeader
       IN IF \E k \in 1..Len(before) : before[k] = h THEN before
          ELSE Append(before, h)

\* topicMap.get(header)
TopicMessages(messages, header) ==
  SelectSeq(messages, LAMBDA m : m.sectionHeader = header)

\* the runs of the structuring script
MaxStructureRuns == 2

\* the times the process is killed
MaxAborts == 1

\* --batch-size and --max-batches
BatchSizeArgs == {1, 2}

MaxBatchesArgs == {2}

\* the locals of an iteration of the loop of main before a topic is chosen
NoBatch ==
  [topicHeader |-> << >>, topicSlug |-> << >>, start |-> 0, count |-> 0,
   batchIndex |-> 0, topicJson |-> << >>]

\* no state file yet
NoStructureState ==
  [exists |-> FALSE, topicCursors |-> EmptyMap,
   topicBatchCounters |-> EmptyMap]

\* the structuring script is not running
NoStructure ==
  [phase |-> "none", md |-> << >>, messages |-> << >>,
   args |-> [batchSize |-> 1, maxBatches |-> 1],
   cursors |-> EmptyMap, batchCounters |-> EmptyMap, batchesDone |-> 0,
   batch |-> NoBatch, topicFiles |-> EmptyMap, snapshots |-> EmptyMap,
   stateFile |-> NoStructureState, runs |-> 0, aborts |-> 0,
   outcome |-> "none"]

\* lines 632 and 665: Number.isInteger(m[slug]) ? m[slug] : 0
IntegerOr0(m, slug) == IF slug \in DOMAIN m THEN m[slug] ELSE 0

\* lines 606-611: the cursors or counters of the state file, or 0 for the
\* slug of every topic
LoadedOrZero(exists, saved, messages) ==
  IF exists THEN saved
  ELSE [slug \in { slugifyTopic(TopicHeaders(messages)[k]) :
                     k \in 1..Len(TopicHeaders(messages)) } |-> 0]

\* lines 625-637: the place in topicOrder of the first topic whose cursor
\* is below the number of its messages, 0 when there is none
RECURSIVE ChosenFrom(_, _)
ChosenFrom(st, k) ==
  IF k > Len(TopicHeaders(st.messages)) THEN 0
  ELSE LET header == TopicHeaders(st.messages)[k] IN
    IF IntegerOr0(st.cursors, slugifyTopic(header))
         < Len(TopicMessages(st.messages, header))
      THEN k
      ELSE ChosenFrom(st, k + 1)

Chosen(st) == ChosenFrom(st, 1)

\* topicMessages.slice(start, start + batchSize)
TargetOf(topicMessages, start, batchSize) ==
  SubSeq(topicMessages, start + 1,
         IF start + batchSize < Len(topicMessages)
           THEN start + batchSize ELSE Len(topicMessages))

\* lines 688-702: the entries of the batch; the model returns one entry
\* that cites every target message, and it gets the identifier
\* "<batchIndex>:e1"
BatchEntries(batchIndex, target) ==
  << [entryId |-> NumberToString(batchIndex) \o << ":", "e", "1" >>,
      sources |-> [i \in 1..Len(target) |-> target[i].messageId]] >>

\* lines 644-665 and 705: the locals of the iteration for the chosen topic
BatchOf(st) ==
  LET topicHeader == TopicHeaders(st.messages)[Chosen(st)]
      topicSlug == slugifyTopic(topicHeader)
      topicMessages == TopicMessages(st.messages, topicHeader)
      start == IntegerOr0(st.cursors, topicSlug)
      target == TargetOf(topicMessages, start, st.args.batchSize)
      batchIndex == IntegerOr0(st.batchCounters, topicSlug)
      existing == IF topicSlug \in DOMAIN st.topicFiles
                    THEN st.topicFiles[topicSlug] ELSE << >>
  IN [topicHeader |-> topicHeader, topicSlug |-> topicSlug, start |-> start,
      count |-> Len(target), batchIndex |-> batchIndex,
      topicJson |-> existing \o BatchEntries(batchIndex, target)]

\* the process has ended: what it held in memory is gone
Ended(st, outcome) ==
  [st EXCEPT !.phase = "idle", !.outcome = outcome, !.messages = << >>,
             !.cursors = EmptyMap, !.batchCounters = EmptyMap,
             !.batchesDone = 0, !.batch = NoBatch]

(***************************************************************************)
(* State                                                                   *)
(***************************************************************************)
VARIABLES
  doc,              \* text of the latest compendium version (contextContent)
  pc,               \* "idle": between batches, "apply": in the loop of
                    \* applyOperations, "threw": applyOperations threw
  msgIndex,         \* block source of the batch (buildMessageIndex)
  newLines,         \* working copy of the document lines
  categoryIndex,    \* header text -> line index
  messageIdToLine,  \* block identifier -> line index of its anchor
  insertedCount,    \* blocks inserted by the batch so far
  processed,        \* operations of the batch processed so far
  batches,          \* batches completed
  processedCount,   \* number of input files the run started behind
  pool,             \* the pool of operation records the curation step
                    \* draws from in this run
  last,             \* the operation processed last and what it did
  versions,         \* the version files of the compendium directory: the
                    \* digits of the file name -> the content of the file
  latestVersion,    \* main's latestVersion: name and version of the latest
                    \* file, NoVersion for null
  cite,             \* the structuring script's batch: the entries the model
                    \* returned, the defects counted, the entries rendered
  split,            \* processFile of the splitting script: the buffer, the
                    \* counters and the part files written
  merge,            \* the merging script: the topic files and the group
                    \* the run is at
  rate,             \* the rating script: the state file, the ratings of
                    \* the run and the batch the run is at
  structure,        \* the structuring script: the compendium read, the
                    \* cursors, the topic files and the state file
  retry             \* one call of generateTextWithRetry: the attempt it
                    \* is at and the calls of the model so far

vars ==
  << doc, pc, msgIndex, newLines, categoryIndex, messageIdToLine,
     insertedCount, processed, batches, pool, last, versions, latestVersion,
     processedCount,
     cite, split, merge, rate, structure, retry >>

\* the variables of the scripts other than the compendium builder
scripts == << cite, split, merge, rate, structure, retry >>

\* the variables of the compendium builder
builder ==
  << doc, pc, msgIndex, newLines, categoryIndex, messageIdToLine,
     insertedCount, processed, batches, pool, last, versions, latestVersion,
     processedCount >>

NoOp == [messageId |-> Undef, category |-> Undef,
         position |-> [kind |-> "missing", ref |-> Undef]]

NoLast ==
  [op |-> NoOp, outcome |-> "none", reports |-> << >>, catLine |-> -1,
   insertLine |-> -1, created |-> FALSE, block |-> << >>]

\* documents the run can start from: no version yet, or an existing version
InitialDocs ==
  { << >>,
    << "#", "#", " ", "F", " ", "\n",
       "[", "7", "]", " ", "x", "[", "8", "]", "\n",
       "#", "#", " ", "G" >> }

\* the compendium directory that holds the document as its latest version
DirectoryOf(text) ==
  IF text = << >> THEN EmptyMap
  ELSE << "0", "0", "1" >> :> << >> @@ << "0", "0", "9" >> :> text

\* main, lines 399-400 and 413-417: the latest version is looked up once,
\* and the context is its content, or '' when there is none
Init ==
  /\ doc \in InitialDocs
  /\ versions = DirectoryOf(doc)
  /\ latestVersion = getLatestVersion(versions)
  /\ cite = NoCite
  /\ split = NoSplit
  /\ merge = NoMerge
  /\ rate = NoRate
  /\ structure = NoStructure
  /\ retry = NoRetry
  /\ pc = "idle"
  /\ msgIndex = EmptyMap
  /\ newLines = << >>
  /\ categoryIndex = EmptyMap
  /\ messageIdToLine = EmptyMap
  /\ insertedCount = 0
  /\ processed = 0
  /\ batches = 0
  /\ pool \in OperationPools
  /\ processedCount = latestVersion.version
  /\ last = NoLast

\* main, lines 473-475, and the indexing loop of applyOperations
StartBatch ==
  /\ pc = "idle"
  /\ batches < MaxBatches
  /\ \E messages \in InputFiles :
       msgIndex' = buildMessageIndex(messages)
  /\ LET st == IndexDocument(Split(doc, "\n")) IN
       /\ newLines' = st.newLines
       /\ categoryIndex' = st.categoryIndex
       /\ messageIdToLine' = st.messageIdToLine
       /\ insertedCount' = st.insertedCount
  /\ processed' = 0
  /\ last' = NoLast
  /\ pc' = "apply"
  /\ UNCHANGED << doc, batches, pool, processedCount, versions, latestVersion, scripts >>

\* the fields of the operation record the iteration read: a skipped
\* operation is left at its continue before category and position are read
Unread == << "<unread>" >>

FieldsRead(op, outcome) ==
  IF outcome \in {"unknown", "duplicate"}
    THEN [messageId |-> op.messageId, category |-> Unread,
          position |-> [kind |-> "unread", ref |-> Undef]]
    ELSE op

\* an unknown identifier ends the loop
LoopAfterStopOnUnknown(outcome) ==
  IF outcome \in {"threw", "unknown"} THEN "threw" ELSE "apply"

\* continue (lines 308, 313) and the end of the loop body: the loop goes on
\* unless the iteration threw
LoopAfter(outcome) == IF outcome = "threw" THEN "threw" ELSE "apply"

Working ==
  [newLines |-> newLines, categoryIndex |-> categoryIndex,
   messageIdToLine |-> messageIdToLine, insertedCount |-> insertedCount]

\* one iteration of the loop whose outcome is the given one
Step(op, outcome) ==
  /\ pc = "apply"
  /\ processed < MaxOps
  /\ LET r == ApplyOperation(Working, op, msgIndex) IN
       /\ r.outcome = outcome
       /\ newLines' = r.newLines
       /\ categoryIndex' = r.categoryIndex
       /\ messageIdToLine' = r.messageIdToLine
       /\ insertedCount' = r.insertedCount
       /\ last' = [op |-> FieldsRead(op, r.outcome),
                   outcome |-> r.outcome, reports |-> r.reports,
                   catLine |-> r.catLine, insertLine |-> r.insertLine,
                   created |-> r.created, block |-> r.block]
  /\ processed' = processed + 1
  /\ pc' = LoopAfter(outcome)
  /\ UNCHANGED << doc, msgIndex, batches, pool, processedCount, versions, latestVersion,
                  scripts >>

SkipUnknown == \E op \in OperationsOf(pool) : Step(op, "unknown")

SkipDuplicate == \E op \in OperationsOf(pool) : Step(op, "duplicate")

Insert == \E op \in OperationsOf(pool) : Step(op, "inserted")

Throw == \E op \in OperationsOf(pool) : Step(op, "threw")

\* fs.outputFile(getNextVersionFilename(latestVersion), content), the update
\* of latestVersion that follows it, and the read of the latest version at
\* the start of the next iteration (lines 413-417)
SaveVersion(content) ==
  LET nextPath == getNextVersionFilename(latestVersion) IN
    /\ versions' = OutputFile(versions, nextPath, content)
    /\ latestVersion' = [name |-> nextPath,
                         version |-> latestVersion.version + 1]
    /\ doc' = versions'[latestVersion'.name]

\* the locals of an iteration of main between two input files
BetweenFiles ==
  /\ pc = "idle"
  /\ batches < MaxBatches
  /\ batches' = batches + 1
  /\ UNCHANGED << pc, msgIndex, newLines, categoryIndex, messageIdToLine,
                  insertedCount, processed, pool, processedCount, last, scripts >>

\* lines 426-432: an input file without messages bumps the version with
\* the content unchanged
BumpEmptyInput ==
  /\ BetweenFiles
  /\ SaveVersion(doc)

\* lines 447-457: the model step failed; the file is left without a version
ModelStepFails ==
  /\ BetweenFiles
  /\ UNCHANGED << doc, versions, latestVersion >>

\* lines 464-471: no operations; the version is bumped, content unchanged
BumpNoOperations ==
  /\ BetweenFiles
  /\ SaveVersion(doc)

\* lines 381-382 of applyOperations and lines 477-484 of main: the joined
\* text becomes the latest version; the locals of applyOperations are gone
FinishBatch ==
  /\ pc = "apply"
  /\ SaveVersion(Join(newLines))
  /\ batches' = batches + 1
  /\ pc' = "idle"
  /\ msgIndex' = EmptyMap
  /\ newLines' = << >>
  /\ categoryIndex' = EmptyMap
  /\ messageIdToLine' = EmptyMap
  /\ insertedCount' = 0
  /\ processed' = 0
  /\ last' = NoLast
  /\ UNCHANGED << pool, processedCount, scripts >>

Next ==
  \/ BumpEmptyInput
  \/ ModelStepFails
  \/ BumpNoOperations
  \/ StartBatch
  \/ SkipUnknown
  \/ SkipDuplicate
  \/ Insert
  \/ Throw
  \/ FinishBatch

Spec == Init /\ [][Next]_vars

(***************************************************************************)
(* The structuring script: one batch of entries validated and rendered     *)
(***************************************************************************)
\* the compendium builder is not running
BuilderAbsent ==
  /\ doc = << >>
  /\ versions = EmptyMap
  /\ latestVersion = NoVersion
  /\ pc = "idle"
  /\ msgIndex = EmptyMap
  /\ newLines = << >>
  /\ categoryIndex = EmptyMap
  /\ messageIdToLine = EmptyMap
  /\ insertedCount = 0
  /\ processed = 0
  /\ batches = 0
  /\ pool = "placement"
  /\ processedCount = 0
  /\ last = NoLast

\* the response of the model for a batch has been parsed (lines 678-688)
CiteInit ==
  /\ BuilderAbsent
  /\ structure = NoStructure
  /\ retry = NoRetry
  /\ split = NoSplit
  /\ merge = NoMerge
  /\ rate = NoRate
  /\ \E entries \in ModelResponses :
       cite = [phase |-> "parsed", entries |-> entries, badCitations |-> 0,
               wikipediaEntries |-> << >>]

\* lines 690-702: the entries are given their identifiers, their citations
\* are validated and every entry is rendered
RenderBatch ==
  /\ cite.phase = "parsed"
  /\ LET normalized == normalizedEntries(cite.entries) IN
       cite' = [phase |-> "rendered",
                entries |-> normalized,
                badCitations |-> validateBatchCitations(normalized, ProvidedIds),
                wikipediaEntries |->
                  [i \in 1..Len(normalized) |->
                     applyWikipediaFootnotes(normalized[i])]]
  /\ UNCHANGED << builder, split, merge, rate, structure, retry >>

CiteNext == RenderBatch

CiteSpec == CiteInit /\ [][CiteNext]_vars

(***************************************************************************)
(* The splitting script: processFile on one export                         *)
(***************************************************************************)
SplitInit ==
  /\ BuilderAbsent
  /\ structure = NoStructure
  /\ retry = NoRetry
  /\ cite = NoCite
  /\ merge = NoMerge
  /\ rate = NoRate
  /\ split = StreamStart

\* lines 104-117: the stream delivers a value of the messages array that is
\* an object; it is buffered, and a full buffer is written as a part
OnDataMessage ==
  /\ split.phase = "streaming"
  /\ split.values < MaxMessages
  /\ LET msg == split.totalMessages + 1
         messageBuffer == Append(split.messageBuffer, msg)
         full == Len(messageBuffer) >= MESSAGES_PER_FILE
     IN split' =
          [split EXCEPT
             !.values = @ + 1,
             !.totalMessages = @ + 1,
             !.messageBuffer = IF full THEN << >> ELSE messageBuffer,
             !.parts = IF full
                         THEN writePart(@, messageBuffer, split.partIndex)
                         ELSE @,
             !.partIndex = IF full THEN @ + 1 ELSE @]
  /\ UNCHANGED << builder, cite, merge, rate, structure, retry >>

\* line 106: a value that is no object is passed over
OnDataOther ==
  /\ split.phase = "streaming"
  /\ split.values < MaxMessages
  /\ split.values - split.totalMessages < MaxSkipped
  /\ split' = [split EXCEPT !.values = @ + 1]
  /\ UNCHANGED << builder, cite, merge, rate, structure, retry >>

\* lines 118-124: the stream ends; what is left in the buffer is written
OnEnd ==
  /\ split.phase = "streaming"
  /\ split' =
       [split EXCEPT
          !.phase = "ended",
          !.parts = IF Len(split.messageBuffer) > 0
                      THEN writePart(@, split.messageBuffer, split.partIndex)
                      ELSE @]
  /\ UNCHANGED << builder, cite, merge, rate, structure, retry >>

SplitNext == OnDataMessage \/ OnDataOther \/ OnEnd

SplitSpec == SplitInit /\ [][SplitNext]_vars

(***************************************************************************)
(* The merging script: run over the groups                                 *)
(***************************************************************************)
MergeInit ==
  /\ BuilderAbsent
  /\ structure = NoStructure
  /\ retry = NoRetry
  /\ cite = NoCite
  /\ split = NoSplit
  /\ rate = NoRate
  /\ \E d \in TopicDirectories :
       merge = [phase |-> "running", files |-> DirectoryFiles(d), next |-> 1]

AtGroup == merge.phase = "running" /\ merge.next <= Len(GROUPS)

\* lines 72-87: the group is merged, its output written and its other
\* files deleted
MergeGroupCompletes ==
  /\ AtGroup
  /\ LET r == RunGroup(GROUPS[merge.next], merge.files) IN
       /\ ~r.threw
       /\ merge' = [merge EXCEPT !.files = r.files, !.next = @ + 1]
  /\ UNCHANGED << builder, cite, split, rate, structure, retry >>

\* lines 72-83: the output is written and unlinkSync throws; the run ends
\* with the exception
MergeGroupThrows ==
  /\ AtGroup
  /\ LET r == RunGroup(GROUPS[merge.next], merge.files) IN
       /\ r.threw
       /\ merge' = [merge EXCEPT !.files = r.files, !.next = @ + 1,
                                 !.phase = "threw"]
  /\ UNCHANGED << builder, cite, split, rate, structure, retry >>

\* line 89: all groups are done
RunEnds ==
  /\ merge.phase = "running"
  /\ merge.next > Len(GROUPS)
  /\ merge' = [merge EXCEPT !.phase = "done"]
  /\ UNCHANGED << builder, cite, split, rate, structure, retry >>

MergeNext == MergeGroupCompletes \/ MergeGroupThrows \/ RunEnds

MergeSpec == MergeInit /\ [][MergeNext]_vars

(***************************************************************************)
(* The rating script: runs of main                                         *)
(***************************************************************************)
\* no run yet: no state file, no entry has a rating
RateInit ==
  /\ BuilderAbsent
  /\ structure = NoStructure
  /\ retry = NoRetry
  /\ cite = NoCite
  /\ split = NoSplit
  /\ merge = NoMerge
  /\ rate = [NoRate EXCEPT !.phase = "idle"]

\* lines 324-380: a run starts; with --resume the ratings of the state
\* file are loaded
StartRun ==
  /\ rate.phase = "idle"
  /\ rate.runs < MaxRuns
  /\ \E resume, dryRun \in BOOLEAN :
       rate' = [rate EXCEPT
                  !.phase = "running",
                  !.args = [resume |-> resume, dryRun |-> dryRun],
                  !.savedRatings = IF resume /\ rate.stateFile.exists
                                     THEN rate.stateFile.ratings
                                     ELSE EmptyMap,
                  !.batchStart = 0,
                  !.runs = @ + 1,
                  !.step = NoStep]
  /\ UNCHANGED << builder, cite, split, merge, structure, retry >>

AtBatch == rate.phase = "running" /\ rate.batchStart < MaxEntries

\* lines 387-391: every entry of the batch has a rating
SkipBatch ==
  /\ AtBatch
  /\ alreadyDone(rate.batchStart, rate.savedRatings)
  /\ rate' = [rate EXCEPT
                !.batchStart = @ + BatchSize,
                !.step = [kind |-> "skipped", sent |-> FALSE, returned |-> {}]]
  /\ UNCHANGED << builder, cite, split, merge, structure, retry >>

\* lines 396-399: a dry run passes over the model call
DryRunBatch ==
  /\ AtBatch
  /\ ~alreadyDone(rate.batchStart, rate.savedRatings)
  /\ rate.args.dryRun
  /\ rate' = [rate EXCEPT
                !.batchStart = @ + BatchSize,
                !.step = [kind |-> "dry", sent |-> FALSE, returned |-> {}]]
  /\ UNCHANGED << builder, cite, split, merge, structure, retry >>

\* lines 401-431: the batch is sent and the model returns an array
SendBatch ==
  /\ AtBatch
  /\ ~alreadyDone(rate.batchStart, rate.savedRatings)
  /\ ~rate.args.dryRun
  /\ rate' = [rate EXCEPT
                !.phase = "taking",
                !.items = 0,
                !.step = [kind |-> "sent", sent |-> TRUE, returned |-> {}]]
  /\ UNCHANGED << builder, cite, split, merge, structure, retry >>

\* lines 433-444: the next item of the array; its rating is set in
\* savedRatings and in the entry of its topic file
NextItem ==
  /\ rate.phase = "taking"
  /\ rate.items < MaxItems
  /\ \E item \in RatingItems :
       LET batch == BatchIds(rate.batchStart) IN
         rate' = [rate EXCEPT
                    !.savedRatings = TakeItem(@, item, batch),
                    !.entryRating = TakeItem(@, item, batch),
                    !.items = @ + 1,
                    !.step.returned =
                      IF Taken(item, batch) THEN @ \cup {item.id} ELSE @]
  /\ UNCHANGED << builder, cite, split, merge, structure, retry >>

\* lines 446-470: the array is through; the touched topic files and the
\* state file are written
WriteBatch ==
  /\ rate.phase = "taking"
  /\ rate' = [rate EXCEPT
                !.phase = "running",
                !.stateFile = [exists |-> TRUE, ratings |-> rate.savedRatings],
                !.batchStart = @ + BatchSize,
                !.step.kind = "rated"]
  /\ UNCHANGED << builder, cite, split, merge, structure, retry >>

\* lines 406-425: the batch is sent and the model step fails for good;
\* the process exits
FailBatch ==
  /\ AtBatch
  /\ ~alreadyDone(rate.batchStart, rate.savedRatings)
  /\ ~rate.args.dryRun
  /\ rate' = [rate EXCEPT
                !.phase = "idle",
                !.step = [kind |-> "failed", sent |-> TRUE, returned |-> {}]]
  /\ UNCHANGED << builder, cite, split, merge, structure, retry >>

\* lines 472-478: the loop is over
EndRun ==
  /\ rate.phase = "running"
  /\ rate.batchStart >= MaxEntries
  /\ rate' = [rate EXCEPT !.phase = "idle", !.step = NoStep]
  /\ UNCHANGED << builder, cite, split, merge, structure, retry >>

RateNext ==
  \/ StartRun
  \/ SkipBatch
  \/ DryRunBatch
  \/ SendBatch
  \/ NextItem
  \/ WriteBatch
  \/ FailBatch
  \/ EndRun

RateSpec == RateInit /\ [][RateNext]_vars

(***************************************************************************)
(* The structuring script: runs of main over the topics, without --topic,  *)
(* --start-index and --dry-run                                             *)
(***************************************************************************)
StructureInit ==
  /\ BuilderAbsent
  /\ cite = NoCite
  /\ split = NoSplit
  /\ merge = NoMerge
  /\ rate = NoRate
  /\ retry = NoRetry
  /\ \E md \in CompendiumDocs :
       structure = [NoStructure EXCEPT !.phase = "idle", !.md = md]

\* lines 560-621: the compendium is read and parsed, the state file loaded
StartMain ==
  /\ structure.phase = "idle"
  /\ structure.runs < MaxStructureRuns
  /\ \E batchSize \in BatchSizeArgs, maxBatches \in MaxBatchesArgs :
       LET messages == parseCompendiumMessages(structure.md)
           saved == structure.stateFile
       IN structure' =
            [structure EXCEPT
               !.phase = "loop",
               !.outcome = "running",
               !.runs = @ + 1,
               !.args = [batchSize |-> batchSize, maxBatches |-> maxBatches],
               !.messages = messages,
               !.cursors =
                 LoadedOrZero(saved.exists, saved.topicCursors, messages),
               !.batchCounters =
                 LoadedOrZero(saved.exists, saved.topicBatchCounters, messages),
               !.batchesDone = 0]
  /\ UNCHANGED << builder, cite, split, merge, rate, retry >>

InLoop ==
  /\ structure.phase = "loop"
  /\ structure.batchesDone < structure.args.maxBatches

\* line 622: the loop ends after maxBatches batches
EndOfBatches ==
  /\ structure.phase = "loop"
  /\ structure.batchesDone >= structure.args.maxBatches
  /\ structure' = Ended(structure, "done")
  /\ UNCHANGED << builder, cite, split, merge, rate, retry >>

\* lines 639-642: no topic has remaining messages
NothingToDo ==
  /\ InLoop
  /\ Chosen(structure) = 0
  /\ structure' = Ended(structure, "nothing to do")
  /\ UNCHANGED << builder, cite, split, merge, rate, retry >>

\* lines 677-686: the model call or the parse of its response throws
ModelCallFails ==
  /\ InLoop
  /\ Chosen(structure) # 0
  /\ structure' = Ended(structure, "model call failed")
  /\ UNCHANGED << builder, cite, split, merge, rate, retry >>

\* lines 644-707: the batch of the chosen topic; the entries are appended
\* to those of the topic file and the topic file is written
WriteTopicFile ==
  /\ InLoop
  /\ Chosen(structure) # 0
  /\ LET batch == BatchOf(structure) IN
       structure' =
         [structure EXCEPT
            !.phase = "topicWritten",
            !.batch = batch,
            !.topicFiles = MapSet(@, batch.topicSlug, batch.topicJson)]
  /\ UNCHANGED << builder, cite, split, merge, rate, retry >>

\* lines 709-711: the snapshot after the latest one of the topic is written
WriteSnapshot ==
  /\ structure.phase = "topicWritten"
  /\ LET slug == structure.batch.topicSlug
         earlier == IF slug \in DOMAIN structure.snapshots
                      THEN structure.snapshots[slug] ELSE << >>
     IN structure' =
          [structure EXCEPT
             !.phase = "snapshotWritten",
             !.snapshots =
               MapSet(@, slug, Append(earlier, structure.batch.topicJson))]
  /\ UNCHANGED << builder, cite, split, merge, rate, retry >>

\* lines 721-745: the cursor and the batch counter of the slug are moved,
\* the state file is written and the batch is counted
WriteState ==
  /\ structure.phase = "snapshotWritten"
  /\ LET batch == structure.batch
         cursors == MapSet(structure.cursors, batch.topicSlug,
                           batch.start + batch.count)
         batchCounters == MapSet(structure.batchCounters, batch.topicSlug,
                                 batch.batchIndex + 1)
     IN structure' =
          [structure EXCEPT
             !.phase = "loop",
             !.cursors = cursors,
             !.batchCounters = batchCounters,
             !.stateFile = [exists |-> TRUE, topicCursors |-> cursors,
                            topicBatchCounters |-> batchCounters],
             !.batchesDone = @ + 1,
             !.batch = NoBatch]
  /\ UNCHANGED << builder, cite, split, merge, rate, retry >>

\* the process is killed between two of its writes
Abort ==
  /\ structure.phase \in {"loop", "topicWritten", "snapshotWritten"}
  /\ structure.aborts < MaxAborts
  /\ structure' = [Ended(structure, "aborted") EXCEPT !.aborts = @ + 1]
  /\ UNCHANGED << builder, cite, split, merge, rate, retry >>

StructureNext ==
  \/ StartMain
  \/ EndOfBatches
  \/ NothingToDo
  \/ ModelCallFails
  \/ WriteTopicFile
  \/ WriteSnapshot
  \/ WriteState
  \/ Abort

StructureSpec == StructureInit /\ [][StructureNext]_vars

(***************************************************************************)
(* One call of generateTextWithRetry                                       *)
(***************************************************************************)
RetryInit ==
  /\ BuilderAbsent
  /\ cite = NoCite
  /\ split = NoSplit
  /\ merge = NoMerge
  /\ rate = NoRate
  /\ structure = NoStructure
  /\ \E env \in RetryEnvs : retry = FirstAttempt(env)

\* lines 225-229: generateContent returns and the text is returned
ModelReturnsText ==
  /\ retry.phase = "calling"
  /\ retry' = generateTextWithRetry(retry, FALSE, NoError)
  /\ UNCHANGED << builder, cite, split, merge, rate, structure >>

\* lines 231-233: generateContent throws at an attempt beyond maxAttempts
ThrowsBeyondMaxAttempts ==
  /\ retry.phase = "calling"
  /\ retry.attempt > retry.maxAttempts
  /\ \E error \in ModelErrors :
       retry' = generateTextWithRetry(retry, TRUE, error)
  /\ UNCHANGED << builder, cite, split, merge, rate, structure >>

\* line 252: generateContent throws an error that is not retryable
ThrowsNotRetryable ==
  /\ retry.phase = "calling"
  /\ retry.attempt <= retry.maxAttempts
  /\ \E error \in ModelErrors :
       /\ ~isRetryableError(error)
       /\ retry' = generateTextWithRetry(retry, TRUE, error)
  /\ UNCHANGED << builder, cite, split, merge, rate, structure >>

\* lines 235-250: a retryable error; after the sleep the function calls
\* itself with the next attempt number
RetriesAfterSleep ==
  /\ retry.phase = "calling"
  /\ retry.attempt <= retry.maxAttempts
  /\ \E error \in ModelErrors :
       /\ isRetryableError(error)
       /\ retry' = generateTextWithRetry(retry, TRUE, error)
  /\ UNCHANGED << builder, cite, split, merge, rate, structure >>

RetryNext ==
  \/ ModelReturnsText
  \/ ThrowsBeyondMaxAttempts
  \/ ThrowsNotRetryable
  \/ RetriesAfterSleep

RetrySpec == RetryInit /\ [][RetryNext]_vars

(***************************************************************************)
(* Reading the document back                                               *)
(***************************************************************************)
\* the lines of a document text
LinesOf(text) == Split(text, "\n")

\* the text the working array joins to
WorkingText == Join(newLines)

\* the trailing anchor of every line (Undef where there is none)
AnchorsOf(lines) == [i \in 1..Len(lines) |-> AnchorMatch(lines[i])]

\* the trimmed header text of every line (Undef where it is no header)
HeadersOf(lines) ==
  [i \in 1..Len(lines) |->
     IF StartsWith(lines[i], HeaderPrefix) THEN Trim(lines[i]) ELSE Undef]

\* no value other than Undef occurs twice in the sequence
NoRepeat(values) ==
  \A i, j \in 1..Len(values) :
    (i < j /\ values[i] # Undef) => values[i] # values[j]

AnchorsUnique(text) == NoRepeat(AnchorsOf(LinesOf(text)))

HeadersUnique(text) == NoRepeat(HeadersOf(LinesOf(text)))

(***************************************************************************)
(* Claims                                                                  *)
(***************************************************************************)
\* C1: anchor uniqueness. The initial documents have unique anchors; after
\* any sequence of batches every block identifier is the trailing anchor of
\* at most one line of the persisted document.
C1_AnchorUniqueness == AnchorsUnique(doc)

\* C2: idempotence. From every document the run reaches between batches,
\* for every operation and block source, the batch [op, op] returns the text
\* of the batch [op], and [op] applied to that text returns it unchanged.
C2_Idempotence ==
  pc = "idle" =>
    \A op \in OperationsOf(pool), messages \in InputFiles :
      LET source == buildMessageIndex(messages)
          once == applyOperations(LinesOf(doc), << op >>, source)
          twice == applyOperations(LinesOf(doc), << op, op >>, source)
      IN /\ twice = once
         /\ once # Threw
         /\ applyOperations(LinesOf(once), << op >>, source) = once

\* an identifier inserted by the first operation of a batch is met again by
\* the second operation of the batch
C2_Witness ==
  /\ pc = "apply"
  /\ last.outcome = "duplicate"
  /\ insertedCount = 1
  /\ processed = 2
  /\ \A i \in 1..Len(LinesOf(doc)) :
       AnchorMatch(LinesOf(doc)[i]) # last.op.messageId

\* the last iteration read the whole operation record and inserted its block
Inserted(kind) ==
  /\ pc = "apply"
  /\ last.outcome = "inserted"
  /\ last.op.position.kind = kind

\* the working line at index j is the header the last operation targets
IsTargetHeader(j) ==
  /\ j >= 0 /\ j < Len(newLines)
  /\ IF OpCategory(last.op) = Undef
       THEN At(newLines, j) = Undef
       ELSE At(newLines, j) # Undef /\ Trim(At(newLines, j)) = OpCategory(last.op)

\* the index the header of the last operation's section has now
TargetLine == categoryIndex[OpCategory(last.op)]

\* the new block is at index k and the run from the target header to k holds
\* no header
InTargetRunAt(k) ==
  /\ k < Len(newLines)
  /\ At(newLines, k) = last.block
  /\ IsTargetHeader(TargetLine)
  /\ TargetLine < k
  /\ \A j \in (TargetLine + 1)..(k - 1) : ~ IsHeader(At(newLines, j))

\* C3: append placement. An inserted append block stands after the target
\* header with no header between them, and the line after it is the next
\* header, or it is the last line of the document.
C3_AppendPlacement ==
  Inserted("append") =>
    /\ InTargetRunAt(last.insertLine)
    /\ \/ last.insertLine = Len(newLines) - 1
       \/ IsHeader(At(newLines, last.insertLine + 1))

\* an append into a section that already holds a line and is followed by
\* another section
C3_Witness ==
  /\ Inserted("append")
  /\ ~ last.created
  /\ last.insertLine > TargetLine + 1
  /\ last.insertLine < Len(newLines) - 1

\* the referenced identifier of the last operation was in the index
RefResolved == last.reports = << >> \/ last.reports = << "log: Created category" >>

\* C4: anchor-relative placement. With the reference in the index, an
\* after-anchor block is the line after the referenced anchor line, and a
\* before-anchor block takes the index of the referenced anchor line, which
\* moves down by one.
C4_AnchorRelativePlacement ==
  /\ (Inserted("afterId") /\ RefResolved) =>
       /\ At(newLines, last.insertLine) = last.block
       /\ last.insertLine >= 1
       /\ AnchorMatch(At(newLines, last.insertLine - 1)) = last.op.position.ref
       /\ messageIdToLine[last.op.position.ref] = last.insertLine - 1
  /\ (Inserted("beforeId") /\ RefResolved) =>
       /\ At(newLines, last.insertLine) = last.block
       /\ last.insertLine + 1 < Len(newLines)
       /\ AnchorMatch(At(newLines, last.insertLine + 1)) = last.op.position.ref
       /\ messageIdToLine[last.op.position.ref] = last.insertLine + 1

\* the referenced block was inserted by the first operation of the batch
C4_Witness ==
  /\ Inserted("afterId")
  /\ RefResolved
  /\ processed = 2
  /\ \A i \in 1..Len(LinesOf(doc)) :
       AnchorMatch(LinesOf(doc)[i]) # last.op.position.ref

\* the operation with its position replaced
WithPosition(op, kind) == [op EXCEPT !.position = StringPosition(kind)]

\* an iteration of the loop reads an operation of this position kind
Iterates(kind) ==
  /\ pc = "apply"
  /\ processed' = processed + 1
  /\ last'.op.position.kind = kind

\* C5: unresolved-anchor fallback. An after-anchor operation whose reference
\* is not in the index leaves the lines and indexes an append would leave,
\* a before-anchor one those a prepend would leave; a warning is reported,
\* the block is inserted and the loop goes on.
C5_UnresolvedAnchorFallback ==
  [][ /\ (Iterates("afterId") /\ last'.op.position.ref \notin DOMAIN messageIdToLine) =>
           LET r == ApplyOperation(Working, WithPosition(last'.op, "append"), msgIndex)
           IN /\ newLines' = r.newLines
              /\ categoryIndex' = r.categoryIndex
              /\ messageIdToLine' = r.messageIdToLine
              /\ last'.outcome = "inserted"
              /\ insertedCount' = insertedCount + 1
              /\ last'.reports[Len(last'.reports)]
                   = "warn: afterId not found, defaulting to append"
              /\ pc' = "apply"
      /\ (Iterates("beforeId") /\ last'.op.position.ref \notin DOMAIN messageIdToLine) =>
           LET r == ApplyOperation(Working, WithPosition(last'.op, "prepend"), msgIndex)
           IN /\ newLines' = r.newLines
              /\ categoryIndex' = r.categoryIndex
              /\ messageIdToLine' = r.messageIdToLine
              /\ last'.outcome = "inserted"
              /\ insertedCount' = insertedCount + 1
              /\ last'.reports[Len(last'.reports)]
                   = "warn: beforeId not found, defaulting to prepend"
              /\ pc' = "apply"
    ]_vars

\* C6: prepend placement. An inserted prepend block is the line after the
\* target header line.
C6_PrependPlacement ==
  Inserted("prepend") =>
    /\ InTargetRunAt(last.insertLine)
    /\ last.insertLine = TargetLine + 1

\* a prepend into a section that already holds lines
C6_Witness ==
  /\ Inserted("prepend")
  /\ ~ last.created
  /\ last.insertLine + 2 < Len(newLines)
  /\ ~ IsHeader(At(newLines, last.insertLine + 1))
  /\ ~ IsHeader(At(newLines, last.insertLine + 2))

\* the sequence without its element at 0-based index k
Without(lines, k) == SubSeq(lines, 1, k) \o SubSeq(lines, k + 2, Len(lines))

\* an iteration that finds no header for its section: the working lines gain
\* a blank line, the section name and a blank line at their end, and the
\* block; the name is recorded at the index of its line
CreatesSection ==
  (pc = "apply" /\ processed' = processed + 1 /\ last'.created) =>
    LET category == OpCategory(last'.op) IN
      /\ category \notin DOMAIN categoryIndex
      /\ last'.outcome = "inserted"
      /\ At(newLines', last'.insertLine) = last'.block
      /\ Without(newLines', last'.insertLine)
           = newLines \o << << >>, category, << >> >>
      /\ category \in DOMAIN categoryIndex'
      /\ At(newLines', categoryIndex'[category]) = category
      /\ categoryIndex'[category] >= Len(newLines) + 1

\* the batch [{append, "## F", block}] on the empty document is finished
FirstAppendFinishes ==
  /\ doc = << >>
  /\ pc = "apply" /\ pc' = "idle"
  /\ processed = 1
  /\ last.outcome = "inserted"
  /\ last.op.position.kind = "append"
  /\ last.op.category = CatF

\* C7 as stated: section creation, and the empty document gains
\* "\n## F\n\n<block>\n".
C7_Original ==
  [][ /\ CreatesSection
      /\ FirstAppendFinishes =>
           doc' = << "\n" >> \o CatF \o << "\n", "\n" >> \o last.block
                    \o << "\n" >>
    ]_vars

\* C7, amended: section creation, and the empty document text becomes
\* "\n\n## F\n\n<block>": its one empty line, a blank line, the header, a
\* blank line and the block, without a newline at the end.
C7_SectionCreation ==
  [][ /\ CreatesSection
      /\ FirstAppendFinishes =>
           doc' = << "\n", "\n" >> \o CatF \o << "\n", "\n" >> \o last.block
    ]_vars

\* a section created at the end of a document that has lines
C7_Witness ==
  /\ pc = "apply"
  /\ last.outcome = "inserted"
  /\ last.created
  /\ doc # << >>

\* C8: section-header uniqueness. The initial documents have unique headers;
\* after any sequence of batches no header text, compared trimmed, is on
\* more than one line of the persisted document.
C8_HeaderUniqueness == HeadersUnique(doc)

\* C9: unknown identifier. An operation whose identifier is not in the
\* block source changes no line, no index entry and no count, is reported
\* with a warning, and leaves the loop running.
C9_UnknownIdentifier ==
  [][ (pc = "apply" /\ processed' = processed + 1
        /\ last'.op.messageId \notin DOMAIN msgIndex) =>
        /\ newLines' = newLines
        /\ categoryIndex' = categoryIndex
        /\ messageIdToLine' = messageIdToLine
        /\ insertedCount' = insertedCount
        /\ last'.reports = << "warn: not found in input data, skipping" >>
        /\ pc' = "apply"
    ]_vars

\* an operation for an identifier that the block source lacks was met
C9_Witness ==
  /\ pc = "apply"
  /\ last.outcome = "unknown"
  /\ last.op.messageId \notin DOMAIN msgIndex

\* C10: malformed section name. An operation whose section name is empty,
\* whitespace-only or missing adds no header line and no block.
C10_MalformedSectionRejected ==
  (pc = "apply" /\ last.outcome # "none" /\ last.op.category # Unread
     /\ OpCategory(last.op) \in { << >>, Undef }) =>
    /\ last.outcome # "inserted"
    /\ ~ last.created

\* line 381: the count the batch reports, inserted out of requested
AppliedReport == [inserted |-> insertedCount, requested |-> processed]

\* sections the working index holds beyond those of the input document
SectionsCreated ==
  Cardinality(DOMAIN categoryIndex)
    - Cardinality(DOMAIN IndexDocument(LinesOf(doc)).categoryIndex)

\* C11: auditability. Every iteration ends as inserted, as skipped with the
\* warning of an unknown identifier, or as skipped with the log of a
\* duplicate; an insertion adds one block element and one to the count; and
\* the count reported at the end of the batch is the number of block
\* elements added to the input lines, out of the operations requested.
C11_Auditability ==
  [][ /\ (pc = "apply" /\ processed' = processed + 1) =>
           /\ last'.outcome \in {"inserted", "unknown", "duplicate"}
           /\ last'.outcome = "unknown" =>
                /\ last'.reports = << "warn: not found in input data, skipping" >>
                /\ newLines' = newLines
           /\ last'.outcome = "duplicate" =>
                /\ last'.reports = << "log: already exists in compendium, skipping" >>
                /\ newLines' = newLines
           /\ last'.outcome = "inserted" =>
                /\ insertedCount' = insertedCount + 1
                /\ Len(newLines')
                     = Len(newLines) + 1 + (IF last'.created THEN 3 ELSE 0)
      /\ (pc = "apply" /\ pc' = "idle") =>
           /\ AppliedReport.requested = processed
           /\ AppliedReport.inserted
                = Len(newLines) - Len(LinesOf(doc)) - 3 * SectionsCreated
    ]_vars

\* an operation record with a section name and a position the applier knows
WellFormed(op) ==
  /\ op.category # Undef
  /\ Trim(op.category) # << >>
  /\ op.position.kind \in {"append", "prepend", "afterId", "beforeId"}

\* C12: per-operation failure unit. No iteration throws or ends the loop,
\* whatever records the batch held before it, and a well-formed operation
\* for a block that is in the source and not yet in the document is applied.
C12_PerOperationFailureUnit ==
  [][ (pc = "apply" /\ processed' = processed + 1) =>
        /\ pc' = "apply"
        /\ (/\ InInput(msgIndex, last'.op.messageId)
            /\ ~ AlreadyInserted(messageIdToLine, last'.op.messageId)
            /\ WellFormed(last'.op)) => last'.outcome = "inserted"
    ]_vars


\* two operations on different blocks that target different sections
DisjointSections(op1, op2) ==
  /\ op1.messageId # op2.messageId
  /\ OpCategory(op1) # OpCategory(op2)

PlacedInExistingSection(op, index) ==
  /\ op.position.kind \in {"append", "prepend"}
  /\ OpCategory(op) \in DOMAIN index.categoryIndex

C14_EmptyBatchRoundTrip ==
  (pc = "apply" /\ insertedCount = 0) =>
    LET index == IndexDocument(LinesOf(WorkingText)) IN
      /\ WorkingText = doc
      /\ index.categoryIndex = categoryIndex
      /\ index.messageIdToLine = messageIdToLine

\* a batch on a document with sections and anchors skipped an unknown
\* identifier and a duplicate and inserted nothing
C14_Witness ==
  /\ pc = "apply"
  /\ processed = 2
  /\ insertedCount = 0
  /\ last.outcome = "duplicate"
  /\ DOMAIN categoryIndex # {}
  /\ Cardinality(DOMAIN messageIdToLine) >= 2


\* every element of a, in order, is an element of b
RECURSIVE IsSubsequence(_, _)
IsSubsequence(a, b) ==
  IF a = << >> THEN TRUE
  ELSE IF b = << >> THEN FALSE
  ELSE IF Head(a) = Head(b) THEN IsSubsequence(Tail(a), Tail(b))
  ELSE IsSubsequence(a, Tail(b))

\* the (blank, header, blank) elements the last iteration pushed
PushedSection(record) ==
  IF record.created THEN << << >>, OpCategory(record.op), << >> >> ELSE << >>

\* C15: insert-only frame. A skipped operation leaves the working lines as
\* they are; any other leaves them with at most a (blank, header, blank)
\* triple added at their end and the block added at one index, every
\* earlier element unchanged and in its order; the lines of the input text
\* are, in order, among the working lines and among the lines of the text
\* the batch returns.
C15_InsertOnlyFrame ==
  [][ /\ (pc = "apply" /\ processed' = processed + 1) =>
           /\ last'.outcome \in {"unknown", "duplicate"} =>
                newLines' = newLines
           /\ last'.outcome = "threw" =>
                newLines' = newLines \o PushedSection(last')
           /\ last'.outcome = "inserted" =>
                /\ At(newLines', last'.insertLine) = last'.block
                /\ Without(newLines', last'.insertLine)
                     = newLines \o PushedSection(last')
      /\ pc = "apply" => IsSubsequence(LinesOf(doc), newLines)
      /\ (pc = "apply" /\ pc' = "idle") =>
           IsSubsequence(LinesOf(doc), LinesOf(doc'))
    ]_vars

\* the second insertion of a batch went between lines the document had
C15_Witness ==
  /\ pc = "apply"
  /\ last.outcome = "inserted"
  /\ insertedCount = 2
  /\ ~ last.created
  /\ Len(LinesOf(doc)) >= 3
  /\ last.insertLine < Len(newLines) - 1


\* the step writes a version file
WritesVersion == versions' # versions

\* C16: version snapshots. Every write creates one file, named by the
\* number of the latest file in the directory plus one; no file the
\* directory had is overwritten or changed; the version main holds goes up
\* by one and names the new file, whose content the next iteration reads;
\* the paths that bump the version with unchanged content do the same.
C16_VersionSnapshots ==
  [][ /\ WritesVersion =>
           /\ DOMAIN versions \subseteq DOMAIN versions'
           /\ \A f \in DOMAIN versions : versions'[f] = versions[f]
           /\ \E f \in DOMAIN versions' \ DOMAIN versions :
                /\ DOMAIN versions' = DOMAIN versions \cup {f}
                /\ ParseInt(f) = getLatestVersion(versions).version + 1
                /\ latestVersion' = [name |-> f, version |-> ParseInt(f)]
                /\ versions'[f] = doc'
           /\ latestVersion'.version = latestVersion.version + 1
      /\ latestVersion = getLatestVersion(versions)
      /\ (pc = "idle" /\ batches' = batches + 1 /\ WritesVersion) =>
           versions'[latestVersion'.name] = doc
    ]_vars

\* after a version written by a batch, a second version was written by a
\* bump with unchanged content, past the carry of the file number
C16_Witness ==
  /\ pc = "idle"
  /\ batches = 2
  /\ latestVersion.name = << "0", "1", "1" >>
  /\ versions[<< "0", "1", "0" >>] # versions[<< "0", "0", "9" >>]
  /\ versions[<< "0", "1", "1" >>] = versions[<< "0", "1", "0" >>]


(***************************************************************************)
(* Claims about the citations                                              *)
(***************************************************************************)
Alphanumeric ==
  { "a", "b", "c", "d", "e", "f", "g", "h", "i", "j", "k", "l", "m", "n",
    "o", "p", "q", "r", "s", "t", "u", "v", "w", "x", "y", "z",
    "A", "B", "C", "D", "E", "F", "G", "H", "I", "J", "K", "L", "M", "N",
    "O", "P", "Q", "R", "S", "T", "U", "V", "W", "X", "Y", "Z",
    "0", "1", "2", "3", "4", "5", "6", "7", "8", "9" }

\* the offset k has an alphanumeric character before it and after it
InsideWord(text, k) ==
  /\ k >= 1 /\ k < Len(text)
  /\ text[k] \in Alphanumeric
  /\ text[k + 1] \in Alphanumeric

\* the batch has been rendered
Rendered == cite.phase = "rendered"

\* C17: snapping never splits a word. For every text of the batch and every
\* offset from 0 to its length, the snapped offset does not have an
\* alphanumeric character on both sides, and no marker of a rendered entry
\* was put at such an offset.
C17_SnappingNeverSplitsWord ==
  Rendered =>
    \A i \in 1..Len(cite.entries) :
      LET text == cite.entries[i].text
          groups == Numbered(cite.entries[i])
      IN /\ \A at \in 0..Len(text) :
              ~ InsideWord(text, moveToSentenceEnd(text, at))
         /\ \A g \in 1..Len(groups) : ~ InsideWord(text, groups[g].atChar)

\* a request inside a word was rendered, its marker at another offset
C17_Witness ==
  /\ Rendered
  /\ \E i \in 1..Len(cite.entries) :
       LET entry == cite.entries[i] IN
         /\ Len(entry.citationInserts) = 1
         /\ InsideWord(entry.text, entry.citationInserts[1].atChar)
         /\ Len(Numbered(entry)) = 1
         /\ Numbered(entry)[1].atChar # entry.citationInserts[1].atChar
         /\ cite.wikipediaEntries[i].text # entry.text

\* the 0-based offsets of the terminators of text at or after offset at
TerminatorsFrom(text, at) ==
  { p \in at..(Len(text) - 1) : text[p + 1] \in Terminators }

\* the entry of example scenario 4: one request at offset 5, source "42"
RamenEntry ==
  [entryId |-> EntryIdOf(1), type |-> Undef, text |-> ExampleText,
   citationInserts |->
     << [atChar |-> 5, isInteger |-> TRUE, sources |-> << << "4", "2" >> >>] >>]

ValidRequests(entry) ==
  { r \in 1..Len(entry.citationInserts) :
      ValidInsert(entry.citationInserts[r], entry.text) }

\* the 0-based offsets of the line breaks of text at or after offset at
LineBreaksFrom(text, at) ==
  { p \in at..(Len(text) - 1) : text[p + 1] = "\n" }

\* C19: line-break fallback. For every request with a valid offset: with
\* no terminator between the requested offset and the next line break, the
\* marker's offset is that line break, also when a later line has a
\* terminator; with neither a terminator nor a line break after the
\* requested offset it is the end of the text.
C19_LineBreakFallback ==
  Rendered =>
    \A i \in 1..Len(cite.entries) :
      LET entry == cite.entries[i]
          text == entry.text
          groups == Numbered(entry)
      IN \A r \in ValidRequests(entry) :
           LET at == entry.citationInserts[r].atChar
               breaks == LineBreaksFrom(text, at)
               snapped == CHOOSE k \in 0..Len(text) :
                            \E g \in 1..Len(groups) :
                              /\ groups[g].atChar = k
                              /\ \E j \in 1..Len(groups[g].insList) :
                                   groups[g].insList[j].req = r
           IN /\ breaks # {} =>
                   LET nl == CHOOSE p \in breaks : \A q \in breaks : p <= q IN
                     (\A p \in TerminatorsFrom(text, at) : p > nl) =>
                       snapped = nl
              /\ (breaks = {} /\ TerminatorsFrom(text, at) = {}) =>
                   snapped = Len(text)

\* the offset the request at place r snaps to
SnappedOf(entry, r) ==
  moveToSentenceEnd(entry.text, entry.citationInserts[r].atChar)

\* the reference numbers the groups give to the request at place r
NumbersOf(groups, r) ==
  UNION { { groups[g].nums[j] :
              j \in { x \in 1..Len(groups[g].insList) :
                        groups[g].insList[x].req = r } } :
          g \in 1..Len(groups) }

\* the entry of example scenario 5 for the offsets in the given order
TwoRequests(first, second) ==
  [entryId |-> EntryIdOf(1), type |-> Undef, text |-> ExampleText,
   citationInserts |->
     << [atChar |-> first, isInteger |-> TRUE, sources |-> SourcesOf(1)],
        [atChar |-> second, isInteger |-> TRUE, sources |-> SourcesOf(2)] >>]

\* C20: grouping and numbering. The k valid requests of an entry take the
\* numbers 1..k, one each, which are the keys of the footnote table; a
\* request with a larger snapped offset has a larger number, and of two
\* requests with the same snapped offset the one supplied first has the
\* number just before the other's markers; offsets 4 and 6 of
\* "Ramen is cheap here." render as "Ramen is cheap here.[1][2]".
C20_GroupingAndNumbering ==
  Rendered =>
    \A i \in 1..Len(cite.entries) :
      LET entry == cite.entries[i]
          groups == Numbered(entry)
          valid == ValidRequests(entry)
          k == Cardinality(valid)
          number(r) == CHOOSE n \in NumbersOf(groups, r) : TRUE
      IN /\ \A r \in valid : Cardinality(NumbersOf(groups, r)) = 1
         /\ \A r \in 1..Len(entry.citationInserts) \ valid :
              NumbersOf(groups, r) = {}
         /\ { number(r) : r \in valid } = 1..k
         /\ DOMAIN cite.wikipediaEntries[i].footnotes
              = { NumberToString(n) : n \in 1..k }
         /\ \A r1, r2 \in valid :
              /\ SnappedOf(entry, r1) < SnappedOf(entry, r2) =>
                   number(r1) < number(r2)
              /\ (SnappedOf(entry, r1) = SnappedOf(entry, r2) /\ r1 < r2) =>
                   number(r1) < number(r2)
         /\ entry \in {TwoRequests(4, 6), TwoRequests(6, 4)} =>
              cite.wikipediaEntries[i].text
                = ExampleText \o << "[", "1", "]", "[", "2", "]" >>

\* an entry whose second request snaps to a smaller offset than its first
\* was rendered, and the second request has the number 1
C20_Witness ==
  /\ Rendered
  /\ LET entry == cite.entries[1] IN
       /\ ValidRequests(entry) = {1, 2}
       /\ SnappedOf(entry, 2) < SnappedOf(entry, 1)
       /\ NumbersOf(Numbered(entry), 2) = {1}
       /\ NumbersOf(Numbered(entry), 1) = {2}


\* total length of the markers of the groups before group g
RECURSIVE MarkersBefore(_, _)
MarkersBefore(groups, g) ==
  IF g <= 1 THEN 0
  ELSE MarkersBefore(groups, g - 1) + Len(groups[g - 1].marker)

\* the original text from offset from on, with the marker of every group
\* from group g on put at its offset in the original text
RECURSIVE Woven(_, _, _, _)
Woven(text, groups, g, from) ==
  IF g > Len(groups) THEN SubSeq(text, from + 1, Len(text))
  ELSE SubSeq(text, from + 1, groups[g].atChar) \o groups[g].marker
         \o Woven(text, groups, g + 1, groups[g].atChar)

\* C21: marker placement stays valid. In the rendered text, what stands
\* before the marker of a group is the original text up to the group's
\* snapped offset with the earlier markers in it, the marker follows, and
\* the rendered text is the original text with the markers put at their
\* snapped offsets, so that removing them gives the original text.
C21_MarkerPlacement ==
  Rendered =>
    \A i \in 1..Len(cite.entries) :
      LET text == cite.entries[i].text
          groups == Numbered(cite.entries[i])
          out == cite.wikipediaEntries[i].text
      IN /\ out = Woven(text, groups, 1, 0)
         /\ Len(out) = Len(text) + MarkersBefore(groups, Len(groups) + 1)
         /\ \A g \in 1..Len(groups) :
              LET at == groups[g].atChar + MarkersBefore(groups, g) IN
                /\ SubSeq(out, at + 1, at + Len(groups[g].marker))
                     = groups[g].marker
                /\ SubSeq(out, 1, at)
                     = Woven(SubSeq(text, 1, groups[g].atChar),
                             SubSeq(groups, 1, g - 1), 1, 0)

\* an entry with markers at two offsets, text before and between them
C21_Witness ==
  /\ Rendered
  /\ LET groups == Numbered(cite.entries[1]) IN
       /\ Len(groups) = 2
       /\ groups[1].atChar >= 1
       /\ groups[2].atChar > groups[1].atChar + 1
       /\ Len(cite.wikipediaEntries[1].text) = Len(cite.entries[1].text) + 6


\* s occurs in text as a run of adjacent characters
Occurs(s, text) ==
  \E k \in 0..(Len(text) - Len(s)) : SubSeq(text, k + 1, k + Len(s)) = s

\* the reference numbers whose marker stands in the text
MarkerNumbersIn(text) == { n \in 1..Len(text) : Occurs(Marker(n), text) }

\* the trimmed, non-empty source identifiers of the request at place r
SourceIdsOf(entry, r) ==
  LET sources == entry.citationInserts[r].sources IN
    { Trim(sources[s]) : s \in 1..Len(sources) } \ { << >> }

\* the place of the first source of the request at place r that is id
FirstSeen(entry, r, id) ==
  LET sources == entry.citationInserts[r].sources IN
    CHOOSE s \in 1..Len(sources) :
      /\ Trim(sources[s]) = id
      /\ \A t \in 1..(s - 1) : Trim(sources[t]) # id

\* C22: footnote table. The keys of the table are the numbers whose
\* markers stand in the rendered text, and the value under the number of a
\* request holds each source identifier of the request once, ordered by
\* where the identifier is first seen among the request's sources.
C22_FootnoteTable ==
  Rendered =>
    \A i \in 1..Len(cite.entries) :
      LET entry == cite.entries[i]
          groups == Numbered(entry)
          footnotes == cite.wikipediaEntries[i].footnotes
      IN /\ DOMAIN footnotes
              = { NumberToString(n) :
                    n \in MarkerNumbersIn(cite.wikipediaEntries[i].text) }
         /\ \A r \in ValidRequests(entry) :
              \A n \in NumbersOf(groups, r) :
                LET ids == footnotes[NumberToString(n)] IN
                  /\ { ids[a] : a \in 1..Len(ids) } = SourceIdsOf(entry, r)
                  /\ \A a, b \in 1..Len(ids) :
                       a < b => FirstSeen(entry, r, ids[a])
                                  < FirstSeen(entry, r, ids[b])

\* the second request of an entry repeats a source; its footnote holds the
\* two identifiers once each
C22_Witness ==
  /\ Rendered
  /\ ValidRequests(cite.entries[1]) = {1, 2}
  /\ Len(cite.entries[1].citationInserts[2].sources) = 3
  /\ << "2" >> \in DOMAIN cite.wikipediaEntries[1].footnotes
  /\ cite.wikipediaEntries[1].footnotes[<< "2" >>]
       = << << "7" >>, << "4", "2" >> >>


\* the request at place r of the entry has an offset that is not an integer,
\* is negative or exceeds the length of the text
OffsetInvalid(entry, r) ==
  LET ins == entry.citationInserts[r] IN
    \/ ~ins.isInteger
    \/ ins.atChar < 0
    \/ ins.atChar > Len(entry.text)

InvalidRequests(entry) ==
  { r \in 1..Len(entry.citationInserts) : OffsetInvalid(entry, r) }

\* the entry without its requests of invalid offset
WithoutInvalid(entry) ==
  [entry EXCEPT !.citationInserts =
     SelectSeq(entry.citationInserts,
               LAMBDA ins : /\ ins.isInteger
                            /\ ins.atChar >= 0
                            /\ ins.atChar <= Len(entry.text))]

\* the sources of the entry's requests that name no message of the batch
UnknownSources(entry) ==
  { << r, s >> \in (1..Len(entry.citationInserts)) \X (1..3) :
      /\ s <= Len(entry.citationInserts[r].sources)
      /\ entry.citationInserts[r].sources[s] \notin ProvidedIds }

\* f[1] + ... + f[n]
RECURSIVE SumOver(_, _)
SumOver(f, n) == IF n = 0 THEN 0 ELSE f[n] + SumOver(f, n - 1)

\* C23: invalid citation offsets. A request whose offset is not an integer,
\* is negative or exceeds the text length gets no number, no marker and no
\* footnote; the entry is rendered as it would be without these requests,
\* every entry of the batch is rendered, and the defect count of the batch
\* holds one defect for each such request next to the unknown sources. An
\* entry with no valid request keeps its text and has an empty table.
C23_InvalidOffsets ==
  Rendered =>
    /\ Len(cite.wikipediaEntries) = Len(cite.entries)
    /\ cite.badCitations
         = SumOver([i \in 1..Len(cite.entries) |->
                      Cardinality(InvalidRequests(cite.entries[i]))
                        + Cardinality(UnknownSources(cite.entries[i]))],
                   Len(cite.entries))
    /\ \A i \in 1..Len(cite.entries) :
         LET entry == cite.entries[i]
             out == cite.wikipediaEntries[i]
             invalid == InvalidRequests(entry)
             kept == Len(entry.citationInserts) - Cardinality(invalid)
         IN /\ \A r \in invalid : NumbersOf(Numbered(entry), r) = {}
            /\ out = applyWikipediaFootnotes(WithoutInvalid(entry))
            /\ Cardinality(DOMAIN out.footnotes) = kept
            /\ Cardinality(MarkerNumbersIn(out.text)) = kept
            /\ Len(out.text) = Len(entry.text) + 3 * kept
            /\ kept = 0 => out.text = entry.text /\ out.footnotes = EmptyMap

\* a batch of two entries: the first has a request at offset 1.5 and a valid
\* one, which is rendered with the number 1; the second has one request
\* beyond the end of its text and is returned unchanged
C23_Witness ==
  /\ Rendered
  /\ Len(cite.entries) = 2
  /\ LET first == cite.entries[1]
         second == cite.entries[2]
     IN /\ Len(first.citationInserts) = 2
        /\ ~first.citationInserts[1].isInteger
        /\ first.citationInserts[2].isInteger
        /\ first.citationInserts[2].atChar = 4
        /\ DOMAIN cite.wikipediaEntries[1].footnotes = { << "1" >> }
        /\ Len(cite.wikipediaEntries[1].text) = Len(first.text) + 3
        /\ Len(second.citationInserts) = 1
        /\ second.citationInserts[1].atChar > Len(second.text)
        /\ cite.wikipediaEntries[2].text = second.text
        /\ cite.wikipediaEntries[2].footnotes = EmptyMap
        /\ cite.badCitations = 5


\* the block an operation has just inserted, and the message it was made of
JustInserted == pc = "apply" /\ last.outcome = "inserted"

InsertedMessage == msgIndex[last.op.messageId]

\* the first text line of the block inserted last
FirstLineOfBlock == Split(last.block, "\n")[1]

QuotedPreface == StartsWith(FirstLineOfBlock, ReplyQuotedOpen)

LightPreface == StartsWith(FirstLineOfBlock, ReplyLightOpen)

\* the block whose identifier is id is resident in the working document:
\* a line of the document ends with its anchor
Resident(id) ==
  \E i \in 1..Len(LinesOf(WorkingText)) :
    AnchorsOf(LinesOf(WorkingText))[i] = id

\* C24 as stated: the quoted preface is used when the block replied to is
\* resident in the document being assembled, the lighter notation when it
\* is not, and a block without a reply reference has no preface line.
C24_Original ==
  JustInserted =>
    LET replyTo == InsertedMessage.replyTo IN
      /\ QuotedPreface <=> (Truthy(replyTo) /\ Resident(replyTo))
      /\ LightPreface <=> (Truthy(replyTo) /\ ~Resident(replyTo))

\* C24: reply back-reference notation. A block that replies to another
\* block starts with the quoted preface line, holding the first characters
\* of the content replied to, when the block replied to is in the block
\* source of the batch, and with the line "> (Reply to ID: <id>)" when it is
\* not; a block without a reply reference has no preface line.
C24_ReplyNotation ==
  JustInserted =>
    LET msg == InsertedMessage
        replyTo == msg.replyTo
        own == << "[" >> \o msg.id \o << "]" >>
        lines == Split(last.block, "\n")
    IN /\ (Truthy(replyTo) /\ replyTo \in DOMAIN msgIndex) =>
            /\ Len(lines) >= 2
            /\ lines[1] = ReplyQuotedOpen
                            \o Trim(SliceTo(msgIndex[replyTo].content, SnippetLen))
                            \o << "\"" >>
            /\ lines[2][1] = "["
       /\ (Truthy(replyTo) /\ replyTo \notin DOMAIN msgIndex) =>
            /\ Len(lines) >= 2
            /\ lines[1] = ReplyLightOpen \o replyTo \o << ")" >>
            /\ lines[2][1] = "["
       /\ ~Truthy(replyTo) =>
            /\ ~QuotedPreface
            /\ ~LightPreface
            /\ lines[1][1] = "["
       /\ SubSeq(last.block, Len(last.block) - Len(own) + 1, Len(last.block))
            = own

\* a reply was inserted with the quoted preface while the block it replies
\* to is in the block source and not in the document
C24_Witness ==
  /\ JustInserted
  /\ Truthy(InsertedMessage.replyTo)
  /\ InsertedMessage.replyTo \in DOMAIN msgIndex
  /\ ~Resident(InsertedMessage.replyTo)
  /\ QuotedPreface


(***************************************************************************)
(* Claims about the splitting script                                       *)
(***************************************************************************)
\* the part size the header comment of the script names
StatedPartSize == 1000

\* the index of the last part file written
LastPart == CHOOSE p \in DOMAIN split.parts : \A q \in DOMAIN split.parts : q <= p

\* C25: export splitting size. When the export has been streamed, every
\* part file but the last holds exactly 1000 messages and the last part
\* holds between 1 and 1000 messages.
C25_SplitSize ==
  split.phase = "ended" =>
    \A p \in DOMAIN split.parts :
      /\ p # LastPart => Len(split.parts[p]) = StatedPartSize
      /\ p = LastPart => Len(split.parts[p]) \in 1..StatedPartSize


(***************************************************************************)
(* Claims about the merging script                                         *)
(***************************************************************************)
\* the entries the files of the group before place k hold together
RECURSIVE EntriesBefore(_, _, _)
EntriesBefore(group, files, k) ==
  IF k <= 1 THEN 0
  ELSE EntriesBefore(group, files, k - 1)
         + Len(files[group.files[k - 1]].entries)

\* C26: merge renumbering. The output file a group's iteration writes holds
\* the entries of the group's files one file after the other in the listed
\* order, and its i-th entry has the entryId "0:e<i>", so the identifiers
\* run from 0:e1 to 0:eN and differ pairwise.
C26_MergeRenumbering ==
  [][AtGroup =>
       LET group == GROUPS[merge.next]
           before == merge.files
           out == merge'.files[group.output]
           N == EntriesBefore(group, before, Len(group.files) + 1)
       IN /\ out.kind = "json"
          /\ Len(out.entries) = N
          /\ \A k \in 1..Len(group.files) :
               \A j \in 1..Len(before[group.files[k]].entries) :
                 out.entries[EntriesBefore(group, before, k) + j].text
                   = before[group.files[k]].entries[j].text
          /\ \A i \in 1..N :
               out.entries[i].entryId = << "0", ":", "e" >> \o NumberToString(i)
          /\ \A i, j \in 1..N :
               i # j => out.entries[i].entryId # out.entries[j].entryId]_vars

\* group B was merged from three files of two entries each: the sixth
\* entry of the output is the second entry of the output's own old content
C26_Witness ==
  /\ merge.phase = "running"
  /\ merge.next = 3
  /\ LET out == merge.files["general-protips.json"] IN
       /\ Len(out.entries) = 6
       /\ out.entries[6].text = << "general-protips.json", 2 >>
       /\ out.entries[6].entryId = << "0", ":", "e", "6" >>
       /\ out.entries[3].text = << "general-protips-travel-hacks.json", 1 >>


(***************************************************************************)
(* Claims about the rating script                                          *)
(***************************************************************************)
\* the ratings the state file holds
SavedOnDisk ==
  IF rate.stateFile.exists THEN rate.stateFile.ratings ELSE EmptyMap

\* an entry of the batch the run is at has no saved rating
SomeUnrated ==
  \E id \in BatchIds(rate.batchStart) : id \notin DOMAIN SavedOnDisk

\* the step keeps every rating of the map, but for the entries the model
\* returned a rating for
Kept(before, after) ==
  \A id \in DOMAIN before :
    /\ id \in DOMAIN after
    /\ after[id] # before[id] => id \in rate'.step.returned

RatingsKept ==
  /\ rate.stateFile.exists => rate'.stateFile.exists
  /\ Kept(rate.stateFile.ratings, rate'.stateFile.ratings)
  /\ Kept(rate.entryRating, rate'.entryRating)

\* every rating of the map is a whole number from 0 to 1000
WholeRatings(ratings) ==
  \A id \in DOMAIN ratings :
    ratings[id] % 10 = 0 /\ ratings[id] \div 10 \in 0..1000

\* C27 as stated: in a run with --resume a batch is sent to the model
\* exactly when one of its entries has no saved rating, no saved rating is
\* lost or changed unless the model returned a rating for that entry, and
\* every stored rating is a whole number from 0 to 1000.
C27_Original ==
  [][(rate.phase \in {"running", "taking"} /\ rate.args.resume) =>
       /\ AtBatch => (rate'.step.sent <=> SomeUnrated)
       /\ RatingsKept
       /\ WholeRatings(rate'.stateFile.ratings)
       /\ WholeRatings(rate'.entryRating)]_vars

\* C27: rating resume. In a run with --resume and without --dry-run, each
\* batch the run comes to is sent to the model exactly when one of its
\* entries has no saved rating; with --dry-run no batch is sent. In every
\* run with --resume no saved rating is lost or changed unless the model
\* returned a rating for that entry, and every rating the script stores is
\* a whole number from 0 to 1000.
C27_RatingResume ==
  [][/\ (rate.phase \in {"running", "taking"} /\ rate.args.resume) =>
          /\ (AtBatch /\ ~rate.args.dryRun) =>
               (rate'.step.sent <=> SomeUnrated)
          /\ (AtBatch /\ rate.args.dryRun) => ~rate'.step.sent
          /\ RatingsKept
     /\ WholeRatings(rate'.stateFile.ratings)
     /\ WholeRatings(rate'.entryRating)
     /\ WholeRatings(rate'.savedRatings)]_vars

\* a run with --resume after a run that failed: a batch was sent, the model
\* returned a rating for an entry, and the rating of another entry saved by
\* the earlier run is still in the state file
C27_Witness ==
  /\ rate.runs = 2
  /\ rate.args.resume
  /\ rate.step.kind = "rated"
  /\ rate.step.returned # {}
  /\ \E id \in DOMAIN rate.stateFile.ratings : id \notin rate.step.returned
  /\ \E id \in rate.step.returned : rate.stateFile.ratings[id] = 5000


(***************************************************************************)
(* Claims about the indexes of a batch                                     *)
(***************************************************************************)
\* the element of the working array at the 0-based index is there
InWorking(j) == j >= 0 /\ j < Len(newLines)

\* the element of the working array at the index holds the header cat
HoldsHeader(j, cat) ==
  /\ InWorking(j)
  /\ \/ At(newLines, j) = cat
     \/ At(newLines, j) # Undef /\ Trim(At(newLines, j)) = cat

\* the element of the working array at the index ends with the anchor of id
EndsWithAnchor(j, id) ==
  /\ InWorking(j)
  /\ At(newLines, j) # Undef
  /\ AnchorMatch(At(newLines, j)) = id

\* C28: index consistency within a batch. After every operation processed,
\* inserted or skipped, each section name of the header index maps to the
\* position of the working line sequence that holds that header, and each
\* identifier of the anchor index maps to the position of the line that
\* ends with the anchor of that identifier.
C28_IndexConsistency ==
  pc = "apply" =>
    /\ \A cat \in DOMAIN categoryIndex : HoldsHeader(categoryIndex[cat], cat)
    /\ \A id \in DOMAIN messageIdToLine : EndsWithAnchor(messageIdToLine[id], id)

\* a block was inserted above a header and above the anchor of another
\* block, and both indexes moved with their lines
C28_Witness ==
  /\ pc = "apply"
  /\ last.outcome = "inserted"
  /\ \E cat \in DOMAIN categoryIndex : categoryIndex[cat] > last.insertLine
  /\ \E id \in DOMAIN messageIdToLine :
       /\ id # last.op.messageId
       /\ messageIdToLine[id] > last.insertLine


\* the text lines a block occupies in the joined text
TextLinesOf(block) == Len(Split(block, "\n"))

\* the trimmed text of every line
TrimmedOf(lines) == [i \in 1..Len(lines) |-> Trim(lines[i])]

\* the recorded indexes are line numbers of the joined working text
IndexesAreTextLines ==
  LET headers == TrimmedOf(LinesOf(WorkingText))
      anchors == AnchorsOf(LinesOf(WorkingText))
  IN /\ \A cat \in DOMAIN categoryIndex :
          /\ categoryIndex[cat] + 1 \in DOMAIN headers
          /\ headers[categoryIndex[cat] + 1] = cat
     /\ \A id \in DOMAIN messageIdToLine :
          /\ messageIdToLine[id] + 1 \in DOMAIN anchors
          /\ anchors[messageIdToLine[id] + 1] = id

\* C29: index shift amount. An insertion moves every recorded section index
\* and anchor index at or after the insertion point by the number of text
\* lines of the inserted block, 1 for a block of one line and 2 or more for
\* a block with a reply preface or content of several lines, and the
\* recorded indexes are then line numbers of the joined text.
C29_IndexShiftAmount ==
  [][/\ (pc = "apply" /\ pc' = "apply" /\ last'.outcome = "inserted"
          /\ last'.op.category # Undef) =>
          LET n == TextLinesOf(last'.block)
              insertLine == last'.insertLine
          IN /\ \A cat \in DOMAIN categoryIndex :
                  categoryIndex[cat] >= insertLine =>
                    categoryIndex'[cat] = categoryIndex[cat] + n
             /\ \A id \in DOMAIN messageIdToLine :
                  messageIdToLine[id] >= insertLine =>
                    messageIdToLine'[id] = messageIdToLine[id] + n
     /\ (pc = "apply" /\ pc' = "idle") => IndexesAreTextLines]_vars

\* the offset is right after a sentence terminator, and at the end of the
\* text or before whitespace or a line break
AtSentenceEnd(text, x) ==
  /\ x >= 1
  /\ x <= Len(text)
  /\ text[x] \in Terminators
  /\ x = Len(text) \/ text[x + 1] \in Whitespace \cup {"\n"}

\* C30: snapping keeps an offset that is already at a sentence end. A
\* request whose offset is right after '.', '!' or '?' and before
\* whitespace, a line break or the end of the text gets its marker at that
\* same offset, and snapping the snapped offset of a request again gives
\* the same offset.
C30_SnapKeepsSentenceEnd ==
  Rendered =>
    \A i \in 1..Len(cite.entries) :
      LET entry == cite.entries[i] IN
        \A r \in ValidRequests(entry) :
          LET x == entry.citationInserts[r].atChar
              snapped == SnappedOf(entry, r)
          IN /\ AtSentenceEnd(entry.text, x) => snapped = x
             /\ moveToSentenceEnd(entry.text, snapped) = snapped

\* ---------------------------------------------------------------------
\* Section containment

\* the indexes below j of the working array that hold a section header
HeadersAbove(j) ==
  { i \in 0..(j - 1) : InWorking(i) /\ IsHeader(At(newLines, i)) }

\* the section the element at index j lies in: the trimmed text of the
\* nearest header above it (Undef before the first header)
EnclosingSection(j) ==
  IF HeadersAbove(j) = {} THEN Undef
  ELSE Trim(At(newLines,
         CHOOSE i \in HeadersAbove(j) : \A k \in HeadersAbove(j) : k <= i))

\* the last operation named a section by a header line
NamesSection(op) ==
  /\ WellFormed(op)
  /\ StartsWith(OpCategory(op), HeaderPrefix)

\* C31: section containment. A block inserted by an operation that names a
\* section lies, right after the insertion, below the header of that section
\* and above the next header, whatever the position descriptor; and a
\* section the operation created holds the block that caused its creation.
C31_SectionContainment ==
  (JustInserted /\ NamesSection(last.op)) =>
    /\ At(newLines, last.insertLine) = last.block
    /\ EnclosingSection(last.insertLine) = OpCategory(last.op)
    /\ last.created =>
         /\ last.catLine < last.insertLine
         /\ HoldsHeader(last.catLine, OpCategory(last.op))

\* ---------------------------------------------------------------------
\* Contiguity of blocks

\* the line is the reply preface formatMessageBlock puts before the content
IsReplyPreface(line) ==
  line # Undef /\ (StartsWith(line, ReplyQuotedOpen) \/ StartsWith(line, ReplyLightOpen))

\* the last text line of an element of the working array
LastTextLine(element) ==
  LET textLines == Split(element, "\n") IN textLines[Len(textLines)]

\* C32: blocks stay contiguous. In any batch, the element right above a
\* block just inserted does not end with a reply preface: no insertion goes
\* between the reply preface of a block and the line that follows it.
C32_BlocksContiguous ==
  (JustInserted /\ last.insertLine >= 1) =>
    ~IsReplyPreface(LastTextLine(At(newLines, last.insertLine - 1)))

\* ---------------------------------------------------------------------
\* Resume position of the compendium builder

\* the index a start of main resumes at: the number of the latest version
\* in the directory (lines 399-403)
ResumeIndex == getLatestVersion(versions).version

\* the index of the input file the loop of main is at (fileIndex, line 407)
fileIndex == processedCount + batches

\* C35: resume position. A version is persisted only for the input file a
\* restart would resume at: a step that changes the number of the latest
\* version in the directory folds in the file whose index is that number and
\* raises the number by one, so that the number always counts the files
\* consumed, none is folded in twice and none is passed over for good.
C35_ResumePosition ==
  [][ (ResumeIndex' # ResumeIndex) =>
        /\ fileIndex = ResumeIndex
        /\ ResumeIndex' = ResumeIndex + 1
    ]_vars

\* ---------------------------------------------------------------------
\* Sources of the footnote table

\* the source identifiers stored in the footnote table of a rendered entry
FootnoteSources(out) ==
  UNION { { out.footnotes[key][a] : a \in 1..Len(out.footnotes[key]) } :
          key \in DOMAIN out.footnotes }

\* C38: footnote sources are validated. Every source identifier in the
\* footnote table of a rendered entry is the identifier of a message that
\* was provided to the model for the batch.
C38_FootnoteSourcesValidated ==
  Rendered =>
    \A i \in 1..Len(cite.wikipediaEntries) :
      FootnoteSources(cite.wikipediaEntries[i]) \subseteq ProvidedIds

\* ---------------------------------------------------------------------
\* Files the merge deletes

\* the iteration of the group deleted the file
Deleted(file) ==
  /\ merge.files[file].kind # "missing"
  /\ merge'.files[file].kind = "missing"

\* the entries of the file stand in the output the iteration wrote, from
\* the given place on
StandsInOutput(file, out, from) ==
  /\ out.kind = "json"
  /\ \A j \in 1..Len(merge.files[file].entries) :
       /\ from + j <= Len(out.entries)
       /\ out.entries[from + j].text = merge.files[file].entries[j].text

\* C39: merge loses no entries. A file deleted by the iteration of a group
\* is a file that was read and parsed, and all of its entries stand in the
\* output the iteration wrote; a file that cannot be read or parsed is not
\* deleted.
C39_MergeLosesNoEntries ==
  [][AtGroup =>
       LET group == GROUPS[merge.next] IN
         \A k \in 1..Len(group.files) :
           Deleted(group.files[k]) =>
             /\ merge.files[group.files[k]].kind = "json"
             /\ StandsInOutput(group.files[k],
                               merge'.files[group.output],
                               EntriesBefore(group, merge.files, k))]_vars

\* ---------------------------------------------------------------------
\* Lossless split

\* the messages of the part files 1..p one after the other
RECURSIVE PartsConcat(_)
PartsConcat(p) ==
  IF p = 0 THEN << >> ELSE PartsConcat(p - 1) \o split.parts[p]

\* the number of parts the end handler logs (line 122)
ReportedParts == split.partIndex

\* C40: lossless split. When the export has been streamed, the part files
\* are numbered 1..P without a gap, none is empty, their messages in the
\* order of the part numbers are the messages of the export in their order,
\* and the number of parts reported is P.
C40_LosslessSplit ==
  split.phase = "ended" =>
    LET P == Cardinality(DOMAIN split.parts) IN
      /\ DOMAIN split.parts = 1..P
      /\ \A p \in 1..P : Len(split.parts[p]) > 0
      /\ PartsConcat(P) = [m \in 1..split.totalMessages |-> m]
      /\ ReportedParts = P

\* ---------------------------------------------------------------------
\* Bounded retry

\* C37: bounded retry. One call of generateTextWithRetry invokes the model
\* at most maxAttempts times, and the attempt number it logs never exceeds
\* maxAttempts.
C37_BoundedRetry ==
  retry.phase # "none" =>
    /\ retry.calls <= retry.maxAttempts
    /\ retry.logged <= retry.maxAttempts

\* ---------------------------------------------------------------------
\* Claims about the structuring script

\* the places of the lines above place k that are section headers
HeaderLinesAbove(lines, k) ==
  { j \in 1..(k - 1) : StartsWith(TrimEnd(lines[j]), HeaderPrefix) }

\* the header text of the nearest header line above place k, as the parser
\* names sections; Uncategorized above the first header
SectionHeaderAbove(lines, k) ==
  IF HeaderLinesAbove(lines, k) = {} THEN Uncategorized
  ELSE LET j == CHOOSE j \in HeaderLinesAbove(lines, k) :
                  \A i \in HeaderLinesAbove(lines, k) : i <= j
       IN HeaderPrefix \o Trim(SubSeq(TrimEnd(lines[j]), 4, Len(TrimEnd(lines[j]))))

\* the place of the line that ends with the anchor of the message
AnchorLineOf(lines, messageId) ==
  CHOOSE k \in 1..Len(lines) : IdAtLineEnd(lines[k]) = messageId

\* C33: section attribution. Every message parseCompendiumMessages returns
\* for a compendium made by applyOperations has the section of the nearest
\* header above the anchor line of its block.
C33_SectionAttribution ==
  structure.phase = "loop" =>
    LET lines == Split(structure.md, "\n") IN
      \A i \in 1..Len(structure.messages) :
        structure.messages[i].sectionHeader
          = SectionHeaderAbove(lines,
              AnchorLineOf(lines, structure.messages[i].messageId))


\* the entries of the topic files that cite the message
EntriesCiting(messageId) ==
  { << slug, i >> \in
      UNION { {slug} \X (1..Len(structure.topicFiles[slug])) :
              slug \in DOMAIN structure.topicFiles } :
      \E s \in 1..Len(structure.topicFiles[slug][i].sources) :
        structure.topicFiles[slug][i].sources[s] = messageId }

\* the message was a target message of exactly one batch
TargetOfOneBatch(message) ==
  Cardinality(EntriesCiting(message.messageId)) = 1

\* C34: exactly-once batch coverage. As long as no run was killed: the
\* messages of a topic before the start of the batch being written were
\* each the target of one batch, so that the cursor passes over no message;
\* and when a run finds nothing to do, every message of the compendium was
\* the target of exactly one batch.
C34_ExactlyOnceCoverage ==
  structure.aborts = 0 =>
    /\ structure.phase = "topicWritten" =>
         LET topicMessages ==
               TopicMessages(structure.messages, structure.batch.topicHeader)
         IN \A k \in 1..structure.batch.start :
              TargetOfOneBatch(topicMessages[k])
    /\ structure.outcome = "nothing to do" =>
         LET messages == parseCompendiumMessages(structure.md) IN
           \A k \in 1..Len(messages) : TargetOfOneBatch(messages[k])

\* C36: abort safety. Whenever the process was killed and started again, a
\* topic file holds no entry of a batch twice.
C36_AbortSafety ==
  \A slug \in DOMAIN structure.topicFiles :
    \A i, j \in 1..Len(structure.topicFiles[slug]) :
      i < j => structure.topicFiles[slug][i] # structure.topicFiles[slug][j]

====
